---- MODULE Spec2Model ----
(***************************************************************************)
(* A model of the webhooks-journal command line client:                    *)
(*   - AuthManager   (src/src/utils/auth.ts): the cached OAuth token,       *)
(*   - ApiClient     (src/unnamed/part_003, api-client): the axios         *)
(*                    instance with its request and response interceptors, *)
(*   - JournalApi    (src/unnamed/part_003, journal-api): latest / next    *)
(*                    entry, payload download and streamJournalEntries.    *)
(* Every asynchronous function is a process whose position is one of its   *)
(* await points; an action runs from the completion of one awaited         *)
(* operation (a response, a timer) to the start of the next one, which is  *)
(* how a single-threaded event loop executes it.                           *)
(***************************************************************************)
EXTENDS Integers, Sequences, FiniteSets, TLC

VARIABLES
  now,            \* Date.now(), milliseconds
  currentToken,   \* AuthManager.currentToken
  userPc,         \* the direct AuthManager call in progress (test-auth, cli start)
  authLog,        \* the last two completed direct AuthManager calls, newest last
  lastInfo,       \* what getTokenInfo returned and looked at, when it was the last call
  gw,             \* the ApiClient call in progress
  lastCall,       \* how the ApiClient call of a resource client ended, until the next one
  srv,            \* the remote journal: how it answers, and how many entries it holds
  streamPc,       \* position of streamJournalEntries / pollForNewEntries
  isRunning,      \* journal-api: let isRunning
  lastOffset,     \* journal-api: let lastOffset
  requestCount,   \* journal-api: let requestCount
  lastMinuteTimestamp,  \* journal-api: let lastMinuteTimestamp
  wakeAt,         \* when the pending setTimeout of the loop fires
  sleepMs,        \* the delay that setTimeout was given
  pending,        \* the JournalEntry whose payload is being downloaded
  stopInvoked,    \* the function streamJournalEntries returned has been called
  last,           \* what the last 'next' call ended as and what the loop did with it
  log,            \* the latest entry and the outcomes of the 'next' calls, oldest first
  nEntry,         \* onNewEntry invocations
  nError,         \* onError invocations
  nStatus,        \* onStatusUpdate invocations
  obs,            \* how long a run is observed and what of it is recorded
  cli,            \* InteractiveCLI: the prompt or call it is at, and what it displayed
  cmd,            \* the stream command: its flag and counters, and what it printed
  subs,           \* the SubscriptionsApi.deletePortalSubscriptions call in progress
  watch           \* time since the last 'next' call ended; the journal requests
                  \* dispatched in the 60 s that follow the first one

gwVars == <<gw, lastCall>>
streamVars == <<srv, streamPc, isRunning, lastOffset, requestCount,
                lastMinuteTimestamp, wakeAt, sleepMs, pending, stopInvoked, last,
                log, nEntry, nError, nStatus, obs>>
userVars == <<userPc, authLog, lastInfo>>
vars == <<now, currentToken, userPc, authLog, lastInfo, gwVars, streamVars, watch, subs, cli, cmd>>

(***************************************************************************)
(* Bounds of the model.                                                    *)
(***************************************************************************)
MaxRefreshes == 2      \* forced refreshes the model follows in one gateway call
MaxAuthTimeMs == 2001  \* how long the credential-cache runs are observed
MaxOffset == 3         \* journal offsets 1..MaxOffset, in journal order
ShortHorizonMs == 6000 \* how long a logged stream is observed
LongHorizonMs == 62000 \* how long a stream is observed for its rate budget
MaxSubs == 3           \* subscriptions the API lists
MaxIssued == 4         \* tokens the token endpoint issues in a run that numbers them

(***************************************************************************)
(* Constants of the program.                                               *)
(***************************************************************************)
BufferTimeMs == 300000         \* auth.ts:131  5 * 60 * 1000
MsPerSecond == 1000            \* auth.ts:130  expires_in * 1000

Epoch == 1000                  \* the first clock reading of a run (positive)

NoToken == [access_token |-> 0, expires_in |-> 0, obtained_at |-> 0]
TokenStrings == {1, 2}         \* access_token values the remote issues
ExpiresInChoices == {300, 301, 1800}

(***************************************************************************)
(* AuthManager                                                             *)
(***************************************************************************)
isTokenExpired_GT(token, t) ==
  IF token.obtained_at = 0 THEN TRUE
  ELSE t > (token.obtained_at + token.expires_in * MsPerSecond) - BufferTimeMs

\* auth.ts:124-134
isTokenExpired(token, t) ==
  IF token.obtained_at = 0 THEN TRUE
  ELSE t >= (token.obtained_at + token.expires_in * MsPerSecond) - BufferTimeMs

\* auth.ts:34  this.currentToken && !this.isTokenExpired(this.currentToken)
HasValidToken == currentToken # NoToken /\ ~isTokenExpired(currentToken, now)

\* The answers of the token endpoint.
TokenResponses ==
  [ok : {TRUE}, access_token : TokenStrings, expires_in : ExpiresInChoices,
   body : {TRUE}]
  \cup [ok : {FALSE}, access_token : {0}, expires_in : {0}, body : BOOLEAN]

\* The answers of a token endpoint that issues another token at each exchange,
\* the tokens numbered in the order of issue (the cache holds the last one).
IssuedResponses ==
  {r \in [ok : {TRUE}, access_token : 1..MaxIssued, expires_in : ExpiresInChoices,
          body : {TRUE}] : r.access_token = currentToken.access_token + 1}
  \cup [ok : {FALSE}, access_token : {0}, expires_in : {0}, body : BOOLEAN]

\* auth.ts:83-86  { ...response.data, obtained_at: Date.now() }
NewToken(resp) ==
  [access_token |-> resp.access_token, expires_in |-> resp.expires_in,
   obtained_at |-> now]

\* auth.ts:97-118  the AuthError of a failed exchange
AuthErrorOf(resp) ==
  [name |-> "AuthError",
   category |-> IF resp.body THEN "FROM_BODY" ELSE "HTTP_ERROR"]

Push(l, e) == IF Len(l) < 2 THEN Append(l, e) ELSE <<l[2], e>>

\* One completed call: what it was, whether it succeeded, the access_token it
\* returned, whether it performed an exchange, and whether it found a cached
\* token that had not expired.
NoError == [name |-> "none", category |-> "none"]

LogEntry(op, ok, tok, exchanged, valid) ==
  [op |-> op, ok |-> ok, tok |-> tok, exchanged |-> exchanged, valid |-> valid,
   err |-> NoError]

UserIdle == [pc |-> "idle", valid |-> FALSE]

\* getTokenInfo has not been the last call.
NoInfo == [hasToken |-> FALSE, isExpired |-> TRUE, at |-> 0, token |-> NoToken]
NoCall == [method |-> "none", result |-> [ok |-> FALSE, status |-> 0], sends |-> 0,
           refreshes |-> 0]

\* auth.ts:32-51, the cached branch (lines 34-42)
getAccessToken_Cached ==
  /\ userPc.pc = "idle"
  /\ HasValidToken
  /\ authLog' = Push(authLog,
                     LogEntry("get", TRUE, currentToken.access_token, FALSE, TRUE))
  /\ lastInfo' = NoInfo
  /\ UNCHANGED <<now, currentToken, userPc, gwVars, streamVars, watch, subs, cli, cmd>>

getAccessToken_AlwaysFetch ==
  /\ userPc.pc = "idle"
  /\ userPc' = [pc |-> "get_fetch", valid |-> HasValidToken]
  /\ lastInfo' = NoInfo
  /\ UNCHANGED <<now, currentToken, authLog, gwVars, streamVars, watch, subs, cli, cmd>>

\* auth.ts:32-51, the fetching branch up to the await of line 49
getAccessToken_Fetch ==
  /\ userPc.pc = "idle"
  /\ ~HasValidToken
  /\ userPc' = [pc |-> "get_fetch", valid |-> HasValidToken]
  /\ lastInfo' = NoInfo
  /\ UNCHANGED <<now, currentToken, authLog, gwVars, streamVars, watch, subs, cli, cmd>>

refreshToken_OnlyWhenStale ==
  /\ userPc.pc = "idle"
  /\ IF HasValidToken
       THEN /\ authLog' = Push(authLog,
                               LogEntry("refresh", TRUE, currentToken.access_token,
                                        FALSE, TRUE))
            /\ userPc' = userPc
       ELSE /\ userPc' = [pc |-> "refresh_fetch", valid |-> FALSE]
            /\ authLog' = authLog
  /\ lastInfo' = NoInfo
  /\ UNCHANGED <<now, currentToken, gwVars, streamVars, watch, subs, cli, cmd>>

\* auth.ts:139-146, up to the await of line 144
refreshToken_Start ==
  /\ userPc.pc = "idle"
  /\ userPc' = [pc |-> "refresh_fetch", valid |-> HasValidToken]
  /\ lastInfo' = NoInfo
  /\ UNCHANGED <<now, currentToken, authLog, gwVars, streamVars, watch, subs, cli, cmd>>

fetchAccessToken_Retry(resp) ==
  /\ userPc.pc \in {"get_fetch", "refresh_fetch"}
  /\ LET op == IF userPc.pc = "get_fetch" THEN "get" ELSE "refresh" IN
     IF resp.ok
       THEN /\ currentToken' = NewToken(resp)
            /\ authLog' = Push(authLog,
                               LogEntry(op, TRUE, resp.access_token, TRUE,
                                        userPc.valid))
            /\ userPc' = UserIdle
       ELSE /\ currentToken' = currentToken
            /\ authLog' = authLog
            /\ userPc' = [userPc EXCEPT !.valid = FALSE]
  /\ UNCHANGED <<now, lastInfo, gwVars, streamVars, watch, subs, cli, cmd>>

fetchAccessToken_ClearsOnFailure(resp) ==
  /\ userPc.pc \in {"get_fetch", "refresh_fetch"}
  /\ LET op == IF userPc.pc = "get_fetch" THEN "get" ELSE "refresh" IN
     IF resp.ok
       THEN /\ currentToken' = NewToken(resp)
            /\ authLog' = Push(authLog,
                               LogEntry(op, TRUE, resp.access_token, TRUE,
                                        userPc.valid))
       ELSE /\ currentToken' = NoToken
            /\ authLog' = Push(authLog,
                               [LogEntry(op, FALSE, 0, TRUE, userPc.valid)
                                  EXCEPT !.err = AuthErrorOf(resp)])
  /\ userPc' = UserIdle
  /\ UNCHANGED <<now, lastInfo, gwVars, streamVars, watch, subs, cli, cmd>>

\* auth.ts:56-119 answered, then lines 49-50 (getAccessToken) or 144-145
\* (refreshToken); a failed exchange throws the AuthError of lines 97-118
\* before the assignment.
fetchAccessToken_Done(resp) ==
  /\ userPc.pc \in {"get_fetch", "refresh_fetch"}
  /\ LET op == IF userPc.pc = "get_fetch" THEN "get" ELSE "refresh" IN
     IF resp.ok
       THEN /\ currentToken' = NewToken(resp)
            /\ authLog' = Push(authLog,
                               LogEntry(op, TRUE, resp.access_token, TRUE,
                                        userPc.valid))
       ELSE /\ currentToken' = currentToken
            /\ authLog' = Push(authLog,
                               [LogEntry(op, FALSE, 0, TRUE, userPc.valid)
                                  EXCEPT !.err = AuthErrorOf(resp)])
  /\ userPc' = UserIdle
  /\ UNCHANGED <<now, lastInfo, gwVars, streamVars, watch, subs, cli, cmd>>

clearToken_KeepsToken ==
  /\ userPc.pc = "idle"
  /\ authLog' = Push(authLog, LogEntry("clear", TRUE, 0, FALSE, FALSE))
  /\ lastInfo' = NoInfo
  /\ UNCHANGED <<now, currentToken, userPc, gwVars, streamVars, watch, subs, cli, cmd>>

\* auth.ts:151-156
clearToken ==
  /\ userPc.pc = "idle"
  /\ currentToken' = NoToken
  /\ authLog' = Push(authLog, LogEntry("clear", TRUE, 0, FALSE, FALSE))
  /\ lastInfo' = NoInfo
  /\ UNCHANGED <<now, userPc, gwVars, streamVars, watch, subs, cli, cmd>>

\* auth.ts:161-180, hasToken and isExpired
TokenInfo ==
  IF currentToken = NoToken
    THEN [hasToken |-> FALSE, isExpired |-> TRUE]
    ELSE [hasToken |-> TRUE, isExpired |-> isTokenExpired(currentToken, now)]

getTokenInfo ==
  /\ userPc.pc = "idle"
  /\ lastInfo' = [hasToken |-> TokenInfo.hasToken, isExpired |-> TokenInfo.isExpired,
                  at |-> now, token |-> currentToken]
  /\ UNCHANGED <<now, currentToken, userPc, authLog, gwVars, streamVars, watch, subs, cli, cmd>>

\* The clock. It is read at whole seconds and one millisecond after them.
Tick(d) ==
  /\ now + d <= Epoch + MaxAuthTimeMs
  /\ \/ d = 1000
     \/ d = 1 /\ (now - Epoch) % 1000 = 0
     \/ d = 999 /\ (now - Epoch) % 1000 = 1
  /\ now' = now + d
  /\ lastInfo' = NoInfo
  /\ UNCHANGED <<currentToken, userPc, authLog, gwVars, streamVars, watch, subs, cli, cmd>>

(***************************************************************************)
(* ApiClient: the axios instance and its interceptors                      *)
(***************************************************************************)
NoOffset == 0                  \* lastOffset = null
Offsets == 1..MaxOffset
NoBody == [hasUrl |-> FALSE, currentOffset |-> NoOffset]
Methods == {"get", "post", "put", "delete"}

\* When the request now dispatched left, for a run that records it.
SentAt == IF obs.rolling THEN now ELSE 0

GwIdle ==
  [pc |-> "idle", caller |-> "none", method |-> "get", arg |-> NoOffset,
   sends |-> 0, refreshes |-> 0, bearer |-> 0, rejected |-> 0, sentAt |-> 0,
   result |-> [ok |-> FALSE, status |-> 0, body |-> NoBody]]

\* new ApiClientError(message, statusCode): status 0 stands for undefined
ApiClientError(status) == [ok |-> FALSE, status |-> status, body |-> NoBody]

\* part_003:92-108  createApiError keeps error.response?.status
createApiError(status) == ApiClientError(status)

GwDone(g, result) == [g EXCEPT !.pc = "done", !.result = result]

RequestInterceptor_KeepsHeader(g, token) ==
  IF token # NoToken /\ ~isTokenExpired(token, now)
    THEN [g EXCEPT !.pc = "sent", !.sends = g.sends + 1,
                   !.bearer = IF g.bearer = 0 THEN token.access_token ELSE g.bearer,
                   !.sentAt = SentAt]
    ELSE [g EXCEPT !.pc = "req_fetch"]

\* part_003:53-58  the request interceptor: the token of getAccessToken becomes
\* the bearer of the request that is then dispatched; with no valid token the
\* interceptor first awaits an exchange.
RequestInterceptor(g, token) ==
  IF token # NoToken /\ ~isTokenExpired(token, now)
    THEN [g EXCEPT !.pc = "sent", !.sends = g.sends + 1,
                   !.bearer = token.access_token, !.sentAt = SentAt]
    ELSE [g EXCEPT !.pc = "req_fetch"]

\* A call of the axios instance: get/post/put/delete up to its first await.
GwBegin(caller, method, arg) ==
  /\ gw.pc = "idle"
  /\ gw' = RequestInterceptor(
             [GwIdle EXCEPT !.caller = caller, !.method = method, !.arg = arg],
             currentToken)

\* part_003:55 answered: the exchange awaited by the request interceptor.  A
\* failed exchange rejects the chain with an AuthError, which has no response:
\* the response interceptor's error handler turns it into an ApiClientError
\* without status (lines 68, 84, 104-107).
GwReqFetchDone(resp) ==
  /\ gw.pc = "req_fetch"
  /\ IF resp.ok
       THEN /\ currentToken' = NewToken(resp)
            /\ gw' = [gw EXCEPT !.pc = "sent", !.sends = gw.sends + 1,
                                !.bearer = resp.access_token, !.sentAt = SentAt]
       ELSE /\ currentToken' = currentToken
            /\ gw' = GwDone(gw, createApiError(0))
  /\ UNCHANGED <<now, userVars, lastCall, streamVars, watch, subs, cli, cmd>>

\* part_003:113-136 (get) and 141-181 (post, delete, put) on a 2xx response:
\* only get turns a 204 into an ApiClientError.
OnSuccess(g, r) ==
  IF g.method = "get" /\ r.status = 204
    THEN GwDone(g, ApiClientError(204))
    ELSE GwDone(g, [ok |-> TRUE, status |-> r.status, body |-> r.body])

\* part_003:65-86  the response interceptor on the answer to a dispatched
\* request.  Status 0 is a transport error or timeout (no response).  On 401
\* line 71 awaits refreshToken(), whichever request of the call was answered.
GwResponse(r) ==
  /\ gw.pc = "sent"
  /\ IF r.status \in {200, 204}
       THEN gw' = OnSuccess(gw, r)
       ELSE IF r.status = 401
         THEN /\ gw.refreshes < MaxRefreshes
              /\ gw' = [gw EXCEPT !.pc = "refresh", !.refreshes = gw.refreshes + 1,
                                  !.rejected = gw.bearer]
         ELSE gw' = GwDone(gw, createApiError(r.status))
  /\ UNCHANGED <<now, currentToken, userVars, lastCall, streamVars, watch, subs, cli, cmd>>

GwRefreshDone_AuthError(resp) ==
  /\ gw.pc = "refresh"
  /\ IF resp.ok
       THEN /\ currentToken' = NewToken(resp)
            /\ IF isTokenExpired(NewToken(resp), now)
                 THEN gw' = [gw EXCEPT !.pc = "retry_fetch"]
                 ELSE gw' = RequestInterceptor(gw, NewToken(resp))
       ELSE /\ currentToken' = currentToken
            /\ gw' = GwDone(gw, createApiError(0))
  /\ UNCHANGED <<now, userVars, lastCall, streamVars, watch, subs, cli, cmd>>

\* part_003:71-82  refreshToken answered.  On success lines 75-77 run:
\* getAccessToken (an exchange when the fresh token is already inside its
\* expiry buffer), then the original request goes through the axios instance
\* again, request interceptor and response interceptor included.
GwRefreshDone(resp) ==
  /\ gw.pc = "refresh"
  /\ IF resp.ok
       THEN /\ currentToken' = NewToken(resp)
            /\ IF isTokenExpired(NewToken(resp), now)
                 THEN gw' = [gw EXCEPT !.pc = "retry_fetch"]
                 ELSE gw' = RequestInterceptor(gw, NewToken(resp))
       ELSE \* lines 79-82: throw this.createApiError(error) of the 401
            /\ currentToken' = currentToken
            /\ gw' = GwDone(gw, createApiError(401))
  /\ UNCHANGED <<now, userVars, lastCall, streamVars, watch, subs, cli, cmd>>

\* part_003:75 answered: the exchange of the getAccessToken inside the try.
GwRetryFetchDone(resp) ==
  /\ gw.pc = "retry_fetch"
  /\ IF resp.ok
       THEN /\ currentToken' = NewToken(resp)
            /\ gw' = RequestInterceptor(gw, NewToken(resp))
       ELSE /\ currentToken' = currentToken
            /\ gw' = GwDone(gw, createApiError(401))
  /\ UNCHANGED <<now, userVars, lastCall, streamVars, watch, subs, cli, cmd>>

\* The answers of the API to a request that is no journal request.
PlainResponses == [status : {200, 204, 401, 500, 0}, body : {NoBody}]

\* No deletePortalSubscriptions call is in progress.
SubsIdle ==
  [pc |-> "idle", portalId |-> 0, bulk |-> 0, fellBack |-> FALSE, listed |-> << >>, todo |-> << >>,
   deletes |-> << >>, reports |-> << >>, result |-> "none"]

\* A resource client (subscriptions, snapshots) calls the gateway.
UserCall(method) ==
  /\ gw.pc = "idle"
  /\ streamPc = "idle"
  /\ userPc.pc = "idle"
  /\ GwBegin("user", method, NoOffset)
  /\ lastCall' = NoCall
  /\ UNCHANGED <<now, currentToken, userVars, streamVars, watch, subs, cli, cmd>>

\* The call returns to the resource client, or throws.
UserReturn ==
  /\ gw.pc = "done"
  /\ gw.caller = "user"
  /\ lastCall' = [method |-> gw.method,
                  result |-> [ok |-> gw.result.ok, status |-> gw.result.status],
                  sends |-> gw.sends, refreshes |-> gw.refreshes]
  /\ gw' = GwIdle
  /\ UNCHANGED <<now, currentToken, userVars, streamVars, watch, subs, cli, cmd>>

(***************************************************************************)
(* JournalApi                                                              *)
(***************************************************************************)
MAX_REQUESTS_PER_MINUTE == 30        \* part_003:306
POLL_INTERVAL_MS == 2000             \* part_003:307
WindowMs == 60000                    \* part_003:311, 343
ElapseMs == POLL_INTERVAL_MS          \* the clock of a stream is read once per poll interval

\* The answers of the API to GET /webhooks/v4/journal/latest and
\* /journal/offset/{arg}/next.  A journal in mode "journal" is append-only and
\* answers 'next' with the successor of arg, or with 204, or with a body without
\* url, when arg is its last entry; in mode "any" it may answer with any entry.
\* Either may fail with 401, 500 or no response at all.
JournalBodies(caller, arg) ==
  IF srv.mode = "any"
    THEN [hasUrl : {TRUE}, currentOffset : Offsets]
    ELSE IF caller = "latest"
      THEN {[hasUrl |-> TRUE, currentOffset |-> srv.len]}
      ELSE IF arg < srv.len
        THEN {[hasUrl |-> TRUE, currentOffset |-> arg + 1]}
        ELSE {}

JournalResponses(caller, arg) ==
  [status : {200}, body : JournalBodies(caller, arg)]
  \cup (IF caller = "next" /\ (srv.mode = "any" \/ arg >= srv.len)
          THEN [status : {200, 204}, body : {NoBody}]
          ELSE {})
  \cup [status : {401, 500, 0}, body : {NoBody}]

\* part_003:197-227  downloadJournalData: the payload, or the Error thrown
DownloadOutcomes == {"ok", "404", "403", "failed"}

DownloadError_Generic(outcome) == "Failed to download journal data"

DownloadError(outcome) ==
  CASE outcome = "404" -> "Journal data file not found - the URL may have expired"
    [] outcome = "403" -> "Access denied to journal data file - the URL may have expired"
    [] OTHER -> "Failed to download journal data"

NoPending == NoBody
NoLast == [outcome |-> "none", offset |-> NoOffset, held |-> NoOffset,
           onEntry |-> 0, onError |-> 0, error |-> "none"]

NoWatch == [since |-> POLL_INTERVAL_MS, from |-> 0, n |-> 0]

\* The journal call g has returned: its request counts when it was dispatched
\* less than 60 s after the first request of the stream.
Seen(w, g) ==
  IF g.sentAt = 0 THEN w
  ELSE LET from == IF w.from = 0 THEN g.sentAt ELSE w.from IN
       [w EXCEPT !.from = from,
                 !.n = IF g.sentAt < from + WindowMs THEN w.n + 1 ELSE w.n]

Min(a, b) == IF a <= b THEN a ELSE b

Logged(l, e) == IF obs.logging THEN Append(l, e) ELSE l
Counted(n, k) == IF obs.logging THEN n + k ELSE n

\* part_003:309-320  resetRateLimit and checkRateLimit, on the values held
RateAfterReset(cnt, ts) ==
  IF now - ts >= WindowMs
    THEN [requestCount |-> 0, lastMinuteTimestamp |-> now]
    ELSE [requestCount |-> cnt, lastMinuteTimestamp |-> ts]

checkRateLimit_LE(cnt) == cnt <= MAX_REQUESTS_PER_MINUTE

checkRateLimit(cnt) == cnt < MAX_REQUESTS_PER_MINUTE

Sleep_NoDelay(pc, ms) ==
  /\ streamPc' = pc
  /\ sleepMs' = ms
  /\ wakeAt' = now

\* setTimeout(resolve, ms)
Sleep(pc, ms) ==
  /\ streamPc' = pc
  /\ sleepMs' = ms
  /\ wakeAt' = now + ms

\* part_003:341-375  the body of the loop up to its first await, with
\* requestCount = cnt and lastOffset = off on entry; k status updates precede.
LoopBody(cnt, off, k) ==
  LET rate == RateAfterReset(cnt, lastMinuteTimestamp) IN
  /\ requestCount' = rate.requestCount
  /\ lastMinuteTimestamp' = rate.lastMinuteTimestamp
  /\ IF ~checkRateLimit(rate.requestCount)
       THEN \* lines 343-346
            /\ Sleep("rate_wait", WindowMs - (now - rate.lastMinuteTimestamp))
            /\ nStatus' = Counted(nStatus, k + 1)
            /\ gw' = gw
       ELSE IF off # NoOffset
         THEN \* line 352
              /\ GwBegin("next", "get", off)
              /\ streamPc' = "next_api"
              /\ nStatus' = Counted(nStatus, k)
              /\ UNCHANGED <<wakeAt, sleepMs>>
         ELSE \* line 375
              /\ Sleep("poll_sleep", POLL_INTERVAL_MS)
              /\ nStatus' = Counted(nStatus, k)
              /\ gw' = gw

LoopTop_NoRunningCheck(cnt, off, k) == LoopBody(cnt, off, k)

\* part_003:339  while (isRunning)
LoopTop(cnt, off, k) ==
  IF ~isRunning
    THEN /\ streamPc' = "exited"
         /\ requestCount' = cnt
         /\ nStatus' = Counted(nStatus, k)
         /\ UNCHANGED <<lastMinuteTimestamp, wakeAt, sleepMs, gw>>
    ELSE LoopBody(cnt, off, k)

\* part_003:294-329  streamJournalEntries up to the await of line 329
streamJournalEntries_Start ==
  /\ streamPc = "idle"
  /\ userPc.pc = "idle"
  /\ isRunning' = TRUE
  /\ lastOffset' = NoOffset
  /\ requestCount' = 0
  /\ lastMinuteTimestamp' = now
  /\ nStatus' = Counted(nStatus, 1)
  /\ GwBegin("latest", "get", NoOffset)
  /\ streamPc' = "init_api"
  /\ UNCHANGED <<now, currentToken, userVars, lastCall, srv, wakeAt, sleepMs, pending,
                 stopInvoked, last, log, nEntry, nError, obs, watch, subs, cli, cmd>>

\* part_003:333-336  the catch of the initial fetch: onError once, then the
\* empty stop function is returned; when onError throws the call rejects.
InitFailed(errThrows) ==
  /\ nError' = Counted(nError, 1)
  /\ streamPc' = IF errThrows THEN "init_threw" ELSE "init_failed"
  /\ gw' = GwIdle
  /\ pending' = NoPending
  /\ watch' = Seen(watch, gw)
  /\ UNCHANGED <<now, currentToken, userVars, lastCall, srv, isRunning,
                 lastOffset, requestCount, lastMinuteTimestamp, wakeAt, sleepMs,
                 stopInvoked, last, log, nEntry, nStatus, obs, subs, cli, cmd>>

\* part_003:245-247  getLatestJournalEntry: the API call returned
getLatestJournalEntry_Api(errThrows) ==
  /\ streamPc = "init_api"
  /\ gw.pc = "done"
  /\ gw.caller = "latest"
  /\ IF gw.result.ok /\ gw.result.body.hasUrl
       THEN /\ streamPc' = "init_dl"
            /\ pending' = gw.result.body
            /\ gw' = GwIdle
            /\ errThrows = FALSE
            /\ watch' = Seen(watch, gw)
            /\ UNCHANGED <<now, currentToken, userVars, lastCall, srv,
                           isRunning, lastOffset, requestCount, lastMinuteTimestamp,
                           wakeAt, sleepMs, stopInvoked, last, log, nEntry, nError,
                           nStatus, obs, subs, cli, cmd>>
       ELSE InitFailed(errThrows)

\* part_003:247-253 and 330-332, 385-396: the payload of the latest entry
\* arrived; the loop starts and runs to its first await, and the stop function
\* is returned.
getLatestJournalEntry_Download(outcome, errThrows) ==
  /\ streamPc = "init_dl"
  /\ gw.pc = "idle"
  /\ IF outcome = "ok"
       THEN /\ errThrows = FALSE
            /\ lastOffset' = pending.currentOffset
            /\ pending' = NoPending
            /\ LoopTop(requestCount + 1, pending.currentOffset, 1)
            /\ log' = Logged(log, <<"latest", pending.currentOffset, FALSE>>)
            /\ UNCHANGED <<now, currentToken, userVars, lastCall, srv, isRunning,
                           stopInvoked, last, nEntry, nError, obs, watch, subs, cli, cmd>>
       ELSE InitFailed(errThrows)

\* part_003:351-381  what the loop does with the outcome of one 'next' call:
\* kind "entry" (an entry with currentOffset off and its payload), "204" (the
\* ApiClientError with statusCode 204) or "error" (anything else thrown).
\* thr says which callback invocations throw: the onNewEntry call, the onError
\* call of the inner catch, the onError call of the outer catch.
HandleNext_NoAdvance(kind, off, thr) ==
  LET isNew == kind = "entry" /\ off # lastOffset
      toInner == kind = "error" \/ (isNew /\ thr[1])
      toOuter == toInner /\ thr[2]
  IN [count |-> requestCount + 1 + (IF isNew /\ thr[1] THEN 1 ELSE 0),
      offset |-> lastOffset,
      onEntry |-> IF isNew THEN 1 ELSE 0,
      onError |-> (IF toInner THEN 1 ELSE 0) + (IF toOuter /\ isRunning THEN 1 ELSE 0),
      threw |-> (isNew /\ thr[1]) \/ toOuter,
      next |-> IF ~toOuter THEN "poll"
               ELSE IF isRunning /\ thr[3] THEN "crash" ELSE "backoff"]

HandleNext_ErrorOn204(kind, off, thr) ==
  LET isNew == kind = "entry" /\ off # lastOffset
      toInner == kind \in {"error", "204"} \/ (isNew /\ thr[1])
      toOuter == toInner /\ thr[2]
  IN [count |-> requestCount + 1 + (IF isNew /\ thr[1] THEN 1 ELSE 0),
      offset |-> IF isNew THEN off ELSE lastOffset,
      onEntry |-> IF isNew THEN 1 ELSE 0,
      onError |-> (IF toInner THEN 1 ELSE 0) + (IF toOuter /\ isRunning THEN 1 ELSE 0),
      threw |-> (isNew /\ thr[1]) \/ toOuter,
      next |-> IF ~toOuter THEN "poll"
               ELSE IF isRunning /\ thr[3] THEN "crash" ELSE "backoff"]

HandleNext_AssignAlways(kind, off, thr) ==
  LET isNew == kind = "entry" /\ off # lastOffset
      toInner == kind = "error" \/ (isNew /\ thr[1])
      toOuter == toInner /\ thr[2]
  IN [count |-> requestCount + 1 + (IF isNew /\ thr[1] THEN 1 ELSE 0),
      offset |-> IF kind = "204" THEN lastOffset ELSE off,
      onEntry |-> IF isNew THEN 1 ELSE 0,
      onError |-> (IF toInner THEN 1 ELSE 0) + (IF toOuter /\ isRunning THEN 1 ELSE 0),
      threw |-> (isNew /\ thr[1]) \/ toOuter,
      next |-> IF ~toOuter THEN "poll"
               ELSE IF isRunning /\ thr[3] THEN "crash" ELSE "backoff"]

HandleNext_NoCallback(kind, off, thr) ==
  LET isNew == kind = "entry" /\ off # lastOffset
      toInner == kind = "error"
      toOuter == toInner /\ thr[2]
  IN [count |-> requestCount + 1,
      offset |-> IF isNew THEN off ELSE lastOffset,
      onEntry |-> 0,
      onError |-> (IF toInner THEN 1 ELSE 0) + (IF toOuter /\ isRunning THEN 1 ELSE 0),
      threw |-> toOuter,
      next |-> IF ~toOuter THEN "poll"
               ELSE IF isRunning /\ thr[3] THEN "crash" ELSE "backoff"]

HandleNext(kind, off, thr) ==
  LET isNew == kind = "entry" /\ off # lastOffset
      toInner == kind = "error" \/ (isNew /\ thr[1])
      toOuter == toInner /\ thr[2]
  IN [count |-> requestCount + 1 + (IF isNew /\ thr[1] THEN 1 ELSE 0),
      offset |-> IF isNew THEN off ELSE lastOffset,
      onEntry |-> IF isNew THEN 1 ELSE 0,
      onError |-> (IF toInner THEN 1 ELSE 0) + (IF toOuter /\ isRunning THEN 1 ELSE 0),
      threw |-> (isNew /\ thr[1]) \/ toOuter,
      next |-> IF ~toOuter THEN "poll"
               ELSE IF isRunning /\ thr[3] THEN "crash" ELSE "backoff"]

Throws == BOOLEAN \X BOOLEAN \X BOOLEAN

\* The throws that HandleNext looks at for this outcome, the others FALSE.
Relevant(kind, off, thr) ==
  LET isNew == kind = "entry" /\ off # lastOffset
      toInner == kind = "error" \/ (isNew /\ thr[1])
  IN /\ ~isNew => thr[1] = FALSE
     /\ ~toInner => thr[2] = FALSE
     /\ ~(toInner /\ thr[2] /\ isRunning) => thr[3] = FALSE

\* No stream command runs.
CmdOff ==
  [pc |-> "off", isRunning |-> FALSE, entryCount |-> 0, eventCount |-> 0,
   signalled |-> FALSE, atSignal |-> <<0, 0>>, late |-> 0, summary |-> <<0, 0>>]

\* stream.ts:53-66  the stream command at its call of streamJournalEntries:
\* counters 0, isRunning true, handleShutdown listening to SIGINT and SIGTERM.
CmdReady == [CmdOff EXCEPT !.pc = "streaming", !.isRunning = TRUE]

onNewEntry_Unguarded(c, off) ==
  [c EXCEPT !.entryCount = c.entryCount + 1, !.eventCount = c.eventCount + off,
            !.late = IF c.isRunning THEN c.late ELSE c.late + 1]

\* stream.ts:68-113  the onNewEntry callback of the stream command, an entry at
\* offset off taken to hold off events; late counts the calls it ignores.
onNewEntry(c, off) ==
  IF ~c.isRunning
    THEN [c EXCEPT !.late = c.late + 1]
    ELSE [c EXCEPT !.entryCount = c.entryCount + 1, !.eventCount = c.eventCount + off]

\* part_003:375, 380 and 386-390: the sleep that follows, or the end of the
\* loop when the outer catch itself throws (the .catch of line 386 then calls
\* onError once more while isRunning).
Continue(kind, off, error, h) ==
  /\ requestCount' = h.count
  /\ lastOffset' = h.offset
  /\ nEntry' = Counted(nEntry, h.onEntry)
  /\ nError' = Counted(nError, h.onError + (IF h.next = "crash" THEN 1 ELSE 0))
  /\ last' = IF obs.logging
               THEN [outcome |-> kind, offset |-> off, held |-> lastOffset,
                     onEntry |-> h.onEntry, onError |-> h.onError, error |-> error]
               ELSE last
  /\ log' = Logged(log, <<kind, off, h.threw>>)
  /\ pending' = NoPending
  /\ gw' = GwIdle
  /\ CASE h.next = "poll" -> Sleep("poll_sleep", POLL_INTERVAL_MS)
       [] h.next = "backoff" -> Sleep("backoff", POLL_INTERVAL_MS * 2)
       [] OTHER -> streamPc' = "crashed" /\ UNCHANGED <<wakeAt, sleepMs>>
  /\ watch' = [Seen(watch, gw) EXCEPT !.since = 0]
  /\ cmd' = IF h.onEntry = 1 /\ cmd.pc = "streaming" THEN onNewEntry(cmd, off) ELSE cmd
  /\ UNCHANGED <<now, currentToken, userVars, lastCall, srv, isRunning,
                 lastMinuteTimestamp, stopInvoked, nStatus, obs, subs, cli>>

\* part_003:258-285  getNextJournalEntry: the API call returned
getNextJournalEntry_Api(thr) ==
  /\ streamPc = "next_api"
  /\ gw.pc = "done"
  /\ gw.caller = "next"
  /\ IF gw.result.ok /\ gw.result.body.hasUrl
       THEN \* line 270: the download starts
            /\ thr = <<FALSE, FALSE, FALSE>>
            /\ streamPc' = "next_dl"
            /\ pending' = gw.result.body
            /\ gw' = GwIdle
            /\ watch' = Seen(watch, gw)
            /\ UNCHANGED <<now, currentToken, userVars, lastCall, srv,
                           isRunning, lastOffset, requestCount, lastMinuteTimestamp,
                           wakeAt, sleepMs, stopInvoked, last, log, nEntry, nError,
                           nStatus, obs, subs, cli, cmd>>
       ELSE LET kind == IF gw.result.ok \/ gw.result.status = 204
                          THEN "204" ELSE "error"
                error == IF kind = "204" THEN "none" ELSE "ApiClientError" IN
            /\ Relevant(kind, NoOffset, thr)
            /\ Continue(kind, NoOffset, error, HandleNext(kind, NoOffset, thr))

\* part_003:270-275 and 352-371: the payload download ended
getNextJournalEntry_Download(outcome, thr) ==
  /\ streamPc = "next_dl"
  /\ gw.pc = "idle"
  /\ LET kind == IF outcome = "ok" THEN "entry" ELSE "error"
         off == IF outcome = "ok" THEN pending.currentOffset ELSE NoOffset
         error == IF outcome = "ok" THEN "none" ELSE DownloadError(outcome) IN
     /\ Relevant(kind, off, thr)
     /\ Continue(kind, off, error, HandleNext(kind, off, thr))

TimerFires_BeforeDue ==
  /\ streamPc \in {"poll_sleep", "rate_wait", "backoff"}
  /\ gw.pc = "idle"
  /\ LoopTop(requestCount, lastOffset, 0)
  /\ UNCHANGED <<now, currentToken, userVars, lastCall, srv, isRunning, lastOffset,
                 pending, stopInvoked, last, log, nEntry, nError, obs, watch, subs, cli, cmd>>

\* part_003:345, 375, 380  the timer of the loop fires
TimerFires ==
  /\ streamPc \in {"poll_sleep", "rate_wait", "backoff"}
  /\ now >= wakeAt
  /\ gw.pc = "idle"
  /\ LoopTop(requestCount, lastOffset, 0)
  /\ UNCHANGED <<now, currentToken, userVars, lastCall, srv, isRunning, lastOffset,
                 pending, stopInvoked, last, log, nEntry, nError, obs, watch, subs, cli, cmd>>

Polling == {"next_api", "next_dl", "poll_sleep", "rate_wait", "backoff", "exited",
            "crashed"}

stop_KeepsRunning ==
  /\ streamPc \in Polling
  /\ ~stopInvoked
  /\ gw.pc # "done"
  /\ stopInvoked' = TRUE
  /\ isRunning' = isRunning
  /\ nStatus' = Counted(nStatus, 1)
  /\ UNCHANGED <<now, currentToken, userVars, gwVars, srv, streamPc,
                 lastOffset, requestCount, lastMinuteTimestamp, wakeAt, sleepMs,
                 pending, last, log, nEntry, nError, obs, watch, subs, cli, cmd>>

\* part_003:393-396  the stop function of a stream that entered polling
stop ==
  /\ streamPc \in Polling
  /\ ~stopInvoked
  /\ gw.pc # "done"
  /\ stopInvoked' = TRUE
  /\ isRunning' = FALSE
  /\ nStatus' = Counted(nStatus, 1)
  /\ UNCHANGED <<now, currentToken, userVars, gwVars, srv, streamPc,
                 lastOffset, requestCount, lastMinuteTimestamp, wakeAt, sleepMs,
                 pending, last, log, nEntry, nError, obs, watch, subs, cli, cmd>>

stop_Empty_LikeStop ==
  /\ streamPc = "init_failed"
  /\ ~stopInvoked
  /\ stopInvoked' = TRUE
  /\ isRunning' = FALSE
  /\ nStatus' = Counted(nStatus, 1)
  /\ UNCHANGED <<now, currentToken, userVars, gwVars, srv, streamPc,
                 lastOffset, requestCount, lastMinuteTimestamp, wakeAt, sleepMs,
                 pending, last, log, nEntry, nError, obs, watch, subs, cli, cmd>>

\* part_003:335  return () => {}
stop_Empty ==
  /\ streamPc = "init_failed"
  /\ ~stopInvoked
  /\ stopInvoked' = TRUE
  /\ UNCHANGED <<now, currentToken, userVars, gwVars, srv, streamPc,
                 isRunning, lastOffset, requestCount, lastMinuteTimestamp, wakeAt,
                 sleepMs, pending, last, log, nEntry, nError, nStatus, obs, watch, subs, cli, cmd>>

\* stream.ts:57-64  SIGINT or SIGTERM: handleShutdown
handleShutdown ==
  /\ cmd.pc = "streaming"
  /\ gw.pc # "done"
  /\ cmd' = [cmd EXCEPT !.isRunning = FALSE,
                        !.signalled = TRUE,
                        !.atSignal = IF cmd.signalled THEN cmd.atSignal
                                     ELSE <<cmd.entryCount, cmd.eventCount>>]
  /\ UNCHANGED <<now, currentToken, userVars, gwVars, streamVars, watch, subs, cli>>

\* stream.ts:133-144  streamJournalEntries has returned and the wait loop finds
\* isRunning false: stopStream() (part_003:393-396, or the empty function of
\* line 335) and the summary.
streamCommand_Stop ==
  /\ cmd.pc = "streaming"
  /\ ~cmd.isRunning
  /\ streamPc \in Polling \cup {"init_failed"}
  /\ gw.pc # "done"
  /\ cmd' = [cmd EXCEPT !.pc = "done",
                        !.summary = <<cmd.entryCount, cmd.eventCount>>]
  /\ stopInvoked' = TRUE
  /\ isRunning' = IF streamPc = "init_failed" THEN isRunning ELSE FALSE
  /\ nStatus' = IF streamPc = "init_failed" THEN nStatus ELSE Counted(nStatus, 1)
  /\ UNCHANGED <<now, currentToken, userVars, gwVars, srv, streamPc,
                 lastOffset, requestCount, lastMinuteTimestamp, wakeAt, sleepMs,
                 pending, last, log, nEntry, nError, obs, watch, subs, cli>>

\* A second passes while the stream waits for a response or a timer; a timer
\* fires when it is due.
Elapse ==
  /\ now + ElapseMs <= Epoch + obs.horizon
  /\ gw.pc # "done"
  /\ \/ gw.pc # "idle"
     \/ streamPc \in {"init_dl", "next_dl"}
     \/ streamPc \in {"poll_sleep", "rate_wait", "backoff"} /\ now < wakeAt
  /\ now' = now + ElapseMs
  /\ watch' = [watch EXCEPT !.since = Min(POLL_INTERVAL_MS, watch.since + ElapseMs)]
  /\ UNCHANGED <<currentToken, userVars, gwVars, streamVars, subs, cli, cmd>>

\* The journal holds an entry after the held offset of a stream that polls.
EntryWaiting ==
  /\ streamPc \in {"next_api", "next_dl", "poll_sleep", "rate_wait", "backoff"}
  /\ lastOffset < srv.len

\* Time goes on past the observed horizon for a sleeping stream that an entry
\* waits for, until the timer of the sleep is due.
ElapseOvertime ==
  /\ now + ElapseMs > Epoch + obs.horizon
  /\ EntryWaiting
  /\ gw.pc = "idle"
  /\ streamPc \in {"poll_sleep", "rate_wait", "backoff"}
  /\ now < wakeAt
  /\ now' = now + ElapseMs
  /\ watch' = [watch EXCEPT !.since = Min(POLL_INTERVAL_MS, watch.since + ElapseMs)]
  /\ UNCHANGED <<currentToken, userVars, gwVars, streamVars, subs, cli, cmd>>

\* Time goes on past the observed horizon for a sleeping loop whose flag was
\* cleared, until the timer of the sleep is due.
ElapseAfterStop ==
  /\ now + ElapseMs > Epoch + obs.horizon
  /\ ~isRunning
  /\ gw.pc = "idle"
  /\ streamPc \in {"poll_sleep", "rate_wait", "backoff"}
  /\ now < wakeAt
  /\ now' = now + ElapseMs
  /\ watch' = [watch EXCEPT !.since = Min(POLL_INTERVAL_MS, watch.since + ElapseMs)]
  /\ UNCHANGED <<currentToken, userVars, gwVars, streamVars, subs, cli, cmd>>

\* The remote service appends an entry to the journal.
Publish ==
  /\ srv.mode = "journal"
  /\ srv.len < MaxOffset
  /\ gw.pc # "done"
  /\ srv' = [srv EXCEPT !.len = srv.len + 1]
  /\ UNCHANGED <<now, currentToken, userVars, gwVars, streamPc, isRunning,
                 lastOffset, requestCount, lastMinuteTimestamp, wakeAt, sleepMs,
                 pending, stopInvoked, last, log, nEntry, nError, nStatus, obs, watch, subs, cli, cmd>>

(***************************************************************************)
(* InteractiveCLI: the menus and their actions                             *)
(***************************************************************************)
apiVars == <<now, currentToken, userVars, gwVars, streamVars, watch, subs, cmd>>

Menus == {"subscriptions", "snapshots", "journal"}

\* part_002:228-245, 751-759, 818-835  the actions of each menu
ActionsOf(menu) ==
  CASE menu = "subscriptions" -> {"list", "create", "delete", "deletePortal"}
    [] menu = "snapshots" -> {"snapshots"}
    [] menu = "journal" -> {"earliest", "latest", "next", "stream"}
    [] OTHER -> {}

\* What ApiClient.get returns or throws for a journal request: the entry, a
\* body without url, or an ApiClientError (204: no content; 0: no response).
JournalGetResults ==
  [ok : {TRUE}, status : {200}, body : [hasUrl : {TRUE}, currentOffset : Offsets]]
  \cup {[ok |-> TRUE, status |-> 200, body |-> NoBody]}
  \cup {ApiClientError(st) : st \in {204, 500, 0}}

NoContentMessage == "You are already on the latest offset"

getNextJournalEntry_NoUrlCheck(res, dl) ==
  IF res.ok
    THEN IF dl = "ok" /\ res.body.hasUrl
           THEN [ok |-> TRUE, downloaded |-> TRUE, status |-> 200, message |-> "none",
                 offset |-> res.body.currentOffset]
           ELSE [ok |-> FALSE, downloaded |-> TRUE, status |-> 0,
                 message |-> DownloadError("failed"), offset |-> NoOffset]
    ELSE IF res.status = 204
      THEN [ok |-> FALSE, downloaded |-> FALSE, status |-> 204,
            message |-> NoContentMessage, offset |-> NoOffset]
      ELSE [ok |-> FALSE, downloaded |-> FALSE, status |-> res.status,
            message |-> "API Error", offset |-> NoOffset]

\* part_003:258-285  getNextJournalEntry on what apiClient.get gave (res) and
\* how the payload download ends if it is attempted (dl): the entry with its
\* data, or the error thrown.
getNextJournalEntry(res, dl) ==
  IF res.ok /\ res.body.hasUrl
    THEN IF dl = "ok"
           THEN [ok |-> TRUE, downloaded |-> TRUE, status |-> 200, message |-> "none",
                 offset |-> res.body.currentOffset]
           ELSE [ok |-> FALSE, downloaded |-> TRUE, status |-> 0,
                 message |-> DownloadError(dl), offset |-> NoOffset]
    ELSE IF res.ok \/ res.status = 204
      THEN [ok |-> FALSE, downloaded |-> FALSE, status |-> 204,
            message |-> NoContentMessage, offset |-> NoOffset]
      ELSE [ok |-> FALSE, downloaded |-> FALSE, status |-> res.status,
            message |-> "API Error", offset |-> NoOffset]

\* part_003:232-253  getEarliestJournalEntry / getLatestJournalEntry: no check
\* of the url, errors thrown as they are.
getJournalEntry(res, dl) ==
  IF res.ok
    THEN IF dl = "ok" /\ res.body.hasUrl
           THEN [ok |-> TRUE, downloaded |-> TRUE, status |-> 200, message |-> "none",
                 offset |-> res.body.currentOffset]
           ELSE [ok |-> FALSE, downloaded |-> TRUE, status |-> 0,
                 message |-> DownloadError(IF res.body.hasUrl THEN dl ELSE "failed"),
                 offset |-> NoOffset]
    ELSE [ok |-> FALSE, downloaded |-> FALSE, status |-> res.status,
          message |-> IF res.status = 204 THEN "No content available" ELSE "API Error",
          offset |-> NoOffset]

\* What the gateway gives the API function of a menu action.
CallResults(action) ==
  IF action \in {"earliest", "latest", "next", "nextFrom", "stream"}
    THEN JournalGetResults
    ELSE {[ok |-> TRUE, status |-> 200, body |-> NoBody]}
         \cup {ApiClientError(st) : st \in {401, 500, 0}}

\* What the API function of a menu action returns or throws on that.
CallOutcome(action, res, dl) ==
  CASE action \in {"next", "nextFrom"} -> getNextJournalEntry(res, dl)
    [] action \in {"earliest", "latest"} -> getJournalEntry(res, dl)
    [] action = "stream" ->
         \* part_003:294-336  streamJournalEntries returns a stop function; a
         \* failed initial fetch is reported through onError before
         LET first == getJournalEntry(res, dl)
         IN  [ok |-> TRUE, downloaded |-> first.downloaded,
              status |-> IF first.ok THEN 200 ELSE 500,
              message |-> IF first.ok THEN "none" ELSE "Stream error",
              offset |-> NoOffset]
    [] OTHER ->
         [ok |-> res.ok, downloaded |-> FALSE, status |-> res.status,
          message |-> IF res.ok THEN "none" ELSE "API Error", offset |-> NoOffset]

\* part_002:1011-1019, 1080-1089  the catch of the two 'get next' actions
displayNextError(e) ==
  IF e.status = 204 THEN "info: You are already on the latest offset."
  ELSE "displayApiError"

NoReply == [status |-> 0, hasUrl |-> FALSE]

RequiredEnvVars ==
  {"HUBSPOT_CLIENT_ID", "HUBSPOT_CLIENT_SECRET", "HUBSPOT_API_BASE_URL",
   "HUBSPOT_OAUTH_TOKEN_URL"}

\* What an environment variable holds: nothing, the empty string, a string
\* that new URL() rejects, or a string that it accepts.
EnvValues == {"absent", "empty", "text", "url"}

Environments == [RequiredEnvVars -> EnvValues]

NoConfigError == [name |-> "none", message |-> "none", missing |-> {}]

\* config.ts:10-45  loadConfig: the ConfigError it throws, with the variables
\* its message names, or none.
loadConfig(env) ==
  LET missingVars == {v \in RequiredEnvVars : env[v] \in {"absent", "empty"}} IN
  IF missingVars # {}
    THEN [name |-> "ConfigError",
          message |-> "Missing required environment variables", missing |-> missingVars]
    ELSE IF env["HUBSPOT_API_BASE_URL"] # "url" \/ env["HUBSPOT_OAUTH_TOKEN_URL"] # "url"
      THEN [name |-> "ConfigError", message |-> "Invalid URL format in configuration",
            missing |-> {}]
      ELSE NoConfigError

\* The process when its entry module is loaded.  For index: its SIGINT
\* listener (api.ts:182-185) is registered, main() has not run.
CliStart ==
  [pc |-> "boot", menu |-> "none", action |-> "none", auth |-> FALSE,
   failed |-> FALSE, shown |-> "none", outcome |-> "none", offset |-> NoOffset,
   reply |-> NoReply, downloads |-> FALSE,
   sigint |-> <<"index">>, stopped |-> FALSE, exit |-> "none",
   config |-> NoConfigError, authTest |-> "none", program |-> "index"]

\* api.ts:116-121, 162-176  main(): loadConfig, and the exit on its ConfigError
main_loadConfig(env) ==
  /\ cli.pc = "boot"
  /\ LET e == loadConfig(env) IN
     IF e.name = "ConfigError"
       THEN cli' = [cli EXCEPT !.pc = "exited", !.exit = "1", !.config = e,
                               !.shown = "Configuration Error"]
       ELSE cli' = [cli EXCEPT !.pc = "auth_test"]
  /\ UNCHANGED apiVars

\* stream.ts:23-26, 146-150  the stream command: loadConfig inside the try
\* whose catch displays the error and calls process.exit(1)
streamCommand_loadConfig(env) ==
  /\ cli.pc = "boot"
  /\ LET e == loadConfig(env) IN
     IF e.name = "ConfigError"
       THEN cli' = [cli EXCEPT !.pc = "exited", !.exit = "1", !.config = e,
                               !.shown = "displayApiError", !.program = "stream",
                               !.sigint = << >>]
       ELSE cli' = [cli EXCEPT !.pc = "command", !.program = "stream",
                               !.sigint = << >>]
  /\ UNCHANGED apiVars

\* part_001:12-14, 47-59  the authentication test script: loadConfig inside
\* the try whose catch prints the ConfigError; testAuthentication then returns
\* and the process ends with nothing left to run, exit status 0.
testAuthentication_loadConfig(env) ==
  /\ cli.pc = "boot"
  /\ LET e == loadConfig(env) IN
     IF e.name = "ConfigError"
       THEN cli' = [cli EXCEPT !.pc = "exited", !.exit = "0", !.config = e,
                               !.shown = "Configuration Error",
                               !.program = "test-auth", !.sigint = << >>]
       ELSE cli' = [cli EXCEPT !.pc = "test_auth", !.program = "test-auth",
                               !.sigint = << >>]
  /\ UNCHANGED apiVars

\* part_001:16-59  the six steps of the script passed, or one threw and the
\* catch printed the error; the process ends with exit status 0 either way.
testAuthentication_Ends(passed) ==
  /\ cli.pc = "test_auth"
  /\ cli' = [cli EXCEPT !.pc = "exited", !.exit = "0",
                         !.authTest = IF passed THEN "ok" ELSE "failed",
                         !.shown = IF passed THEN "success" ELSE "Authentication Error"]
  /\ UNCHANGED apiVars

\* api.ts:127-158  main(): the authentication test, skipped with the template
\* credentials; the cli is started whatever its outcome.
main_Authenticate(outcome) ==
  /\ cli.pc = "auth_test"
  /\ cli' = [cli EXCEPT !.pc = "start", !.authTest = outcome]
  /\ UNCHANGED apiVars

\* part_002:82-101  start(): getAccessToken succeeded or threw; the main menu
\* is shown either way.
start(authenticated) ==
  /\ cli.pc = "start"
  /\ cli' = [cli EXCEPT !.pc = "main", !.auth = authenticated]
  /\ UNCHANGED apiVars

\* part_002:154-170  handleMainMenuChoice
handleMainMenuChoice(choice) ==
  /\ cli.pc = "main"
  /\ IF choice = "exit"
       THEN cli' = [cli EXCEPT !.pc = "exited", !.exit = "0"]
       ELSE cli' = [cli EXCEPT !.pc = "menu", !.menu = choice]
  /\ UNCHANGED apiVars

\* The BACK choice of a menu: showMainMenu.
handleMenuBack ==
  /\ cli.pc = "menu"
  /\ cli' = [cli EXCEPT !.pc = "main", !.menu = "none", !.action = "none",
                         !.failed = FALSE, !.shown = "none", !.outcome = "none",
                         !.offset = NoOffset, !.reply = NoReply,
                         !.downloads = FALSE, !.stopped = FALSE]
  /\ UNCHANGED apiVars

handleMenuChoice_Unguarded(action) ==
  /\ cli.pc = "menu"
  /\ action \in ActionsOf(cli.menu)
  /\ cli' = [cli EXCEPT !.pc = "call", !.action = action, !.failed = FALSE,
                         !.shown = "none", !.outcome = "none",
                         !.offset = NoOffset, !.stopped = FALSE,
                         !.sigint = IF action = "stream"
                                      THEN Append(cli.sigint, "handleInterrupt")
                                      ELSE cli.sigint]
  /\ UNCHANGED apiVars

\* A menu action up to the await of its API function; without authentication
\* it warns and waits for a key (e.g. part_002:252-257).  A confirmation
\* answered with no (deletePortal, stream) is the BACK of that action.
handleMenuChoice(action) ==
  /\ cli.pc = "menu"
  /\ action \in ActionsOf(cli.menu)
  /\ IF cli.auth
       THEN cli' = [cli EXCEPT !.pc = "call", !.action = action, !.failed = FALSE,
                               !.shown = "none", !.outcome = "none",
                               !.offset = NoOffset, !.stopped = FALSE,
                               \* part_002:1140-1150  process.on('SIGINT', handleInterrupt)
                               !.sigint = IF action = "stream"
                                            THEN Append(cli.sigint, "handleInterrupt")
                                            ELSE cli.sigint]
       ELSE cli' = [cli EXCEPT !.pc = "press_key", !.action = action,
                               !.failed = FALSE, !.shown = "warning",
                               !.outcome = "none", !.offset = NoOffset,
                               !.reply = NoReply, !.downloads = FALSE,
                               !.stopped = FALSE]
  /\ UNCHANGED apiVars

\* The awaited API function of the action returned or threw.
cliCallEnds(res, dl) ==
  /\ cli.pc = "call"
  /\ res \in CallResults(cli.action)
  /\ LET o == CallOutcome(cli.action, res, dl)
         c == [cli EXCEPT !.reply = [status |-> res.status, hasUrl |-> res.body.hasUrl],
                          !.downloads = o.downloaded]
     IN
     IF o.ok
       THEN CASE cli.action = "list" ->
                   cli' = [c EXCEPT !.pc = "list_actions", !.shown = "list"]
              [] cli.action \in {"earliest", "next", "nextFrom"} ->
                   cli' = [c EXCEPT !.pc = "offer_next", !.shown = "entry",
                                    !.offset = o.offset]
              [] cli.action = "stream" ->
                   cli' = [c EXCEPT !.pc = "streaming",
                                    !.failed = o.status # 200,
                                    !.shown = IF o.status = 200 THEN "none"
                                              ELSE "Stream error",
                                    !.outcome = IF o.status = 200 THEN "none"
                                                ELSE "init_failed"]
              [] OTHER ->
                   cli' = [c EXCEPT !.pc = "press_key", !.shown = "success"]
       ELSE cli' = [c EXCEPT !.pc = "press_key", !.failed = TRUE,
                             !.outcome = IF o.status = 204
                                           THEN o.message ELSE "error",
                             !.shown = IF cli.action \in {"next", "nextFrom"}
                                         THEN displayNextError(o)
                                         ELSE "displayApiError"]
  /\ UNCHANGED apiVars

\* part_002:841-849 answered, and what follows it: the menu of the action, or
\* in listSubscriptions the next turn of its while (true) (lines 301-306).
pressAnyKey ==
  /\ cli.pc = "press_key"
  /\ IF cli.action = "list" /\ cli.failed
       THEN cli' = [cli EXCEPT !.pc = "call", !.failed = FALSE, !.shown = "none",
                               !.outcome = "none", !.reply = NoReply]
       ELSE cli' = [cli EXCEPT !.pc = "menu"]
  /\ UNCHANGED apiVars

\* part_002:286-299  the choice after a list was displayed
showSubscriptionListActions(choice) ==
  /\ cli.pc = "list_actions"
  /\ IF choice = "back"
       THEN cli' = [cli EXCEPT !.pc = "menu"]
       ELSE cli' = [cli EXCEPT !.pc = "call", !.failed = FALSE, !.shown = "none",
                               !.reply = NoReply]
  /\ UNCHANGED apiVars

\* part_002:1030-1057  the choice after an entry was displayed
offerNextOffsetOption(wantNext) ==
  /\ cli.pc = "offer_next"
  /\ IF wantNext
       THEN cli' = [cli EXCEPT !.pc = "call", !.action = "nextFrom",
                               !.shown = "none", !.reply = NoReply,
                               !.downloads = FALSE]
       ELSE cli' = [cli EXCEPT !.pc = "menu"]
  /\ UNCHANGED apiVars

\* Ctrl+C while the stream is shown: the process emits SIGINT to its listeners
\* in the order of their registration.  The listener of index (api.ts:182-185)
\* calls process.exit(0); handleInterrupt (part_002:1141-1148, then 1230-1246)
\* ends the wait, so that stopStream is called, the listeners are restored
\* and the total is shown.
handleInterrupt ==
  /\ cli.pc = "streaming"
  /\ IF Head(cli.sigint) = "index"
       THEN cli' = [cli EXCEPT !.pc = "exited", !.exit = "0", !.shown = "Goodbye"]
       ELSE LET originalHandler ==
                  SelectSeq(cli.sigint, LAMBDA h : h # "handleInterrupt") IN
            cli' = [cli EXCEPT !.pc = "press_key", !.stopped = TRUE,
                               !.shown = "Stream completed",
                               !.sigint = originalHandler \o originalHandler]
  /\ UNCHANGED apiVars

(***************************************************************************)
(* SubscriptionsApi: deletePortalSubscriptions                             *)
(***************************************************************************)
PortalIds == {1, 2}

\* The subscriptions GET /webhooks/v4/subscriptions may list: subscription i
\* has id i, and any portal.
SubscriptionLists ==
  UNION {[1..n -> [id : 1..n, portalId : PortalIds]] : n \in 0..MaxSubs}

Fixtures == {l \in SubscriptionLists : \A i \in 1..Len(l) : l[i].id = i}

\* The answers of the API to the three requests of deletePortalSubscriptions.
SubsResponses(caller) ==
  IF caller = "list"
    THEN [status : {200}, body : [hasUrl : {FALSE}, currentOffset : {NoOffset},
                                  results : Fixtures]]
         \cup [status : {500, 0}, body : {NoBody}]
    ELSE [status : {204, 500, 503, 0}, body : {NoBody}]

\* subscriptions.filter(sub => sub.portalId === portalId)
FilterPortal(l, p) == SelectSeq(l, LAMBDA sub : sub.portalId = p)

\* A call of the axios instance that follows another one of the same function.
GwCall(caller, method, arg) ==
  RequestInterceptor([GwIdle EXCEPT !.caller = caller, !.method = method,
                                    !.arg = arg],
                     currentToken)

\* part_002:1494-1496  deletePortalSubscriptions up to the await of the bulk
\* DELETE /webhooks/v4/subscriptions/portals/{portalId}
deletePortalSubscriptions_Call(p) ==
  /\ subs.pc = "idle"
  /\ streamPc = "idle"
  /\ userPc.pc = "idle"
  /\ GwBegin("bulk", "delete", p)
  /\ subs' = [SubsIdle EXCEPT !.pc = "bulk", !.portalId = p]
  /\ UNCHANGED <<now, currentToken, userVars, lastCall, streamVars, watch, cli, cmd>>

\* part_002:1497-1505  the bulk DELETE returned or threw; on statusCode 500
\* deletePortalSubscriptionsIndividually starts with getSubscriptions (1513).
deletePortalSubscriptions_Bulk ==
  /\ subs.pc = "bulk"
  /\ gw.pc = "done"
  /\ gw.caller = "bulk"
  /\ IF gw.result.ok
       THEN /\ subs' = [subs EXCEPT !.pc = "returned", !.result = "ok"]
            /\ gw' = GwIdle
       ELSE IF gw.result.status = 500
         THEN /\ subs' = [subs EXCEPT !.pc = "list", !.bulk = gw.result.status,
                                      !.fellBack = TRUE]
              /\ gw' = GwCall("list", "get", NoOffset)
         ELSE /\ subs' = [subs EXCEPT !.pc = "returned", !.result = "threw",
                                      !.bulk = gw.result.status]
              /\ gw' = GwIdle
  /\ UNCHANGED <<now, currentToken, userVars, lastCall, streamVars, watch, cli, cmd>>

\* The first of todo is deleted next: deleteSubscription(subscription.id).
DeleteNext(sb, todo) ==
  IF todo = << >>
    THEN /\ subs' = [sb EXCEPT !.pc = "returned", !.result = "ok", !.todo = << >>]
         /\ gw' = GwIdle
    ELSE /\ subs' = [sb EXCEPT !.pc = "item", !.todo = todo,
                               !.deletes = Append(sb.deletes, todo[1].id)]
         /\ gw' = GwCall("item", "delete", todo[1].id)

\* part_002:1513-1524  getSubscriptions returned: the list is filtered by
\* portal and the loop of line 1527 starts; when it threw, so does the call.
getSubscriptions_Done ==
  /\ subs.pc = "list"
  /\ gw.pc = "done"
  /\ gw.caller = "list"
  /\ IF gw.result.ok
       THEN DeleteNext([subs EXCEPT !.listed = gw.result.body.results],
                       FilterPortal(gw.result.body.results, subs.portalId))
       ELSE /\ subs' = [subs EXCEPT !.pc = "returned", !.result = "threw"]
            /\ gw' = GwIdle
  /\ UNCHANGED <<now, currentToken, userVars, lastCall, streamVars, watch, cli, cmd>>

deleteSubscription_StopOnFailure ==
  /\ subs.pc = "item"
  /\ gw.pc = "done"
  /\ gw.caller = "item"
  /\ LET sb == [subs EXCEPT !.reports = Append(subs.reports,
                                                <<subs.todo[1].id, gw.result.ok>>)] IN
     IF gw.result.ok
       THEN DeleteNext(sb, Tail(subs.todo))
       ELSE /\ subs' = [sb EXCEPT !.pc = "returned", !.result = "threw"]
            /\ gw' = GwIdle
  /\ UNCHANGED <<now, currentToken, userVars, lastCall, streamVars, watch, cli, cmd>>

\* part_002:1527-1533  one deleteSubscription returned or threw: either is
\* reported for that subscription and the loop goes on.
deleteSubscription_Done ==
  /\ subs.pc = "item"
  /\ gw.pc = "done"
  /\ gw.caller = "item"
  /\ DeleteNext([subs EXCEPT !.reports = Append(subs.reports,
                                                <<subs.todo[1].id, gw.result.ok>>)],
                Tail(subs.todo))
  /\ UNCHANGED <<now, currentToken, userVars, lastCall, streamVars, watch, cli, cmd>>

(***************************************************************************)
(* Specifications                                                          *)
(***************************************************************************)
InitWith(o, modes, token) ==
  /\ now = Epoch
  /\ currentToken = token
  /\ userPc = UserIdle
  /\ authLog = <<>>
  /\ lastInfo = NoInfo
  /\ gw = GwIdle
  /\ lastCall = NoCall
  /\ srv \in [mode : modes, len : {1}]
  /\ streamPc = "idle"
  /\ isRunning = FALSE
  /\ lastOffset = NoOffset
  /\ requestCount = 0
  /\ lastMinuteTimestamp = 0
  /\ wakeAt = 0
  /\ sleepMs = 0
  /\ pending = NoPending
  /\ stopInvoked = FALSE
  /\ last = NoLast
  /\ log = <<>>
  /\ nEntry = 0
  /\ nError = 0
  /\ nStatus = 0
  /\ obs = o
  /\ watch = NoWatch
  /\ subs = SubsIdle
  /\ cli = CliStart
  /\ cmd = IF o.command THEN CmdReady ELSE CmdOff

Init ==
  InitWith([horizon |-> ShortHorizonMs, logging |-> TRUE, rolling |-> FALSE, command |-> FALSE], {"journal", "any"}, NoToken)

\* Both commands call getAccessToken before they start a stream (stream.ts:33,
\* cli start): a stream starts with a half-hour token in the cache.
CachedToken == [access_token |-> 1, expires_in |-> 1800, obtained_at |-> Epoch]

InitStream ==
  InitWith([horizon |-> ShortHorizonMs, logging |-> TRUE, rolling |-> FALSE, command |-> FALSE], {"journal", "any"},
           CachedToken)

InitRate ==
  InitWith([horizon |-> LongHorizonMs, logging |-> FALSE, rolling |-> FALSE, command |-> FALSE], {"journal"}, CachedToken)

NextAuth ==
  \/ getAccessToken_Cached
  \/ getAccessToken_Fetch
  \/ refreshToken_Start
  \/ \E resp \in TokenResponses : fetchAccessToken_Done(resp)
  \/ clearToken
  \/ getTokenInfo
  \/ \E d \in {1, 999, 1000} : Tick(d)

NextGateway ==
  \/ \E m \in Methods : UserCall(m)
  \/ UserReturn
  \/ \E resp \in TokenResponses : GwReqFetchDone(resp)
  \/ \E r \in PlainResponses : GwResponse(r)
  \/ \E resp \in TokenResponses : GwRefreshDone(resp)
  \/ \E resp \in TokenResponses : GwRetryFetchDone(resp)
  \/ Tick(1000)

\* Gateway calls against a token endpoint that issues another token each time.
NextResend ==
  \/ \E m \in Methods : UserCall(m)
  \/ UserReturn
  \/ \E resp \in IssuedResponses : GwReqFetchDone(resp)
  \/ \E r \in PlainResponses : GwResponse(r)
  \/ \E resp \in IssuedResponses : GwRefreshDone(resp)
  \/ \E resp \in IssuedResponses : GwRetryFetchDone(resp)
  \/ Tick(1000)

\* The steps of a stream whose requests the API answers with an entry, 204 or
\* a failure other than 401, so that the cached token stays.
NextPolling ==
  \/ streamJournalEntries_Start
  \/ \E r \in {x \in JournalResponses(gw.caller, gw.arg) : x.status # 401} :
       GwResponse(r)
  \/ \E e \in BOOLEAN : getLatestJournalEntry_Api(e)
  \/ \E o \in DownloadOutcomes, e \in BOOLEAN : getLatestJournalEntry_Download(o, e)
  \/ \E thr \in Throws : getNextJournalEntry_Api(thr)
  \/ \E o \in DownloadOutcomes, thr \in Throws : getNextJournalEntry_Download(o, thr)
  \/ TimerFires
  \/ Elapse
  \/ Publish

InitCommand ==
  InitWith([horizon |-> ShortHorizonMs, logging |-> FALSE, rolling |-> FALSE,
            command |-> TRUE], {"journal"}, CachedToken)

\* The stream command: its stream, whose callbacks return normally, and the
\* signals it may receive.
NextCommand ==
  \/ streamJournalEntries_Start
  \/ \E r \in {x \in JournalResponses(gw.caller, gw.arg) : x.status # 401} :
       GwResponse(r)
  \/ getLatestJournalEntry_Api(FALSE)
  \/ \E o \in DownloadOutcomes : getLatestJournalEntry_Download(o, FALSE)
  \/ getNextJournalEntry_Api(<<FALSE, FALSE, FALSE>>)
  \/ \E o \in DownloadOutcomes : getNextJournalEntry_Download(o, <<FALSE, FALSE, FALSE>>)
  \/ TimerFires
  \/ Elapse
  \/ Publish
  \/ handleShutdown
  \/ streamCommand_Stop

\* What the event loop does of itself once it can: it runs the callback of an
\* answered request and the continuation of the command's wait.
CommandProgress ==
  \/ streamJournalEntries_Start
  \/ \E r \in {x \in JournalResponses(gw.caller, gw.arg) : x.status # 401} :
       GwResponse(r)
  \/ getLatestJournalEntry_Api(FALSE)
  \/ \E o \in DownloadOutcomes : getLatestJournalEntry_Download(o, FALSE)
  \/ getNextJournalEntry_Api(<<FALSE, FALSE, FALSE>>)
  \/ \E o \in DownloadOutcomes : getNextJournalEntry_Download(o, <<FALSE, FALSE, FALSE>>)

\* Requests fail only within the observed horizon.
MayFail == now + ElapseMs <= Epoch + obs.horizon

\* The steps the event loop takes of itself: the answer to an outstanding
\* request, the continuation that handles it, the passing of time and the
\* timer that is due.  Past the horizon every request succeeds.
LiveProgress ==
  \/ streamJournalEntries_Start
  \/ \E r \in {x \in JournalResponses(gw.caller, gw.arg) :
                  x.status # 401 /\ (x.status \in {200, 204} \/ MayFail)} :
       GwResponse(r)
  \/ \E e \in BOOLEAN : getLatestJournalEntry_Api(e)
  \/ \E o \in {x \in DownloadOutcomes : x = "ok" \/ MayFail}, e \in BOOLEAN :
       getLatestJournalEntry_Download(o, e)
  \/ \E thr \in Throws : getNextJournalEntry_Api(thr)
  \/ \E o \in {x \in DownloadOutcomes : x = "ok" \/ MayFail}, thr \in Throws :
       getNextJournalEntry_Download(o, thr)
  \/ TimerFires
  \/ Elapse
  \/ ElapseOvertime

\* A stream that is never stopped.
NextLive ==
  \/ LiveProgress
  \/ Publish

\* A token cached 25 minutes or more before the stream starts (the menu of the
\* cli is open for as long as the user likes): it is inside its expiry buffer.
StaleToken == [access_token |-> 1, expires_in |-> 300, obtained_at |-> Epoch]

InitRolling ==
  InitWith([horizon |-> LongHorizonMs, logging |-> FALSE, rolling |-> TRUE, command |-> FALSE],
           {"journal"}, StaleToken)

\* A stream on a journal that gains no entry: its first request waits for the
\* exchange of a half-hour token, and every request is answered, with the
\* entry or with 204.
NextRolling ==
  \/ streamJournalEntries_Start
  \/ \E resp \in {r \in TokenResponses : r.ok /\ r.expires_in = 1800} :
       GwReqFetchDone(resp)
  \/ \E r \in {x \in JournalResponses(gw.caller, gw.arg) : x.status \in {200, 204}} :
       GwResponse(r)
  \/ getLatestJournalEntry_Api(FALSE)
  \/ getLatestJournalEntry_Download("ok", FALSE)
  \/ getNextJournalEntry_Api(<<FALSE, FALSE, FALSE>>)
  \/ TimerFires
  \/ Elapse

\* One deletePortalSubscriptions call with a valid token cached.
NextSubs ==
  \/ \E p \in PortalIds : deletePortalSubscriptions_Call(p)
  \/ \E r \in SubsResponses(gw.caller) : GwResponse(r)
  \/ deletePortalSubscriptions_Bulk
  \/ getSubscriptions_Done
  \/ deleteSubscription_Done

\* The interactive cli, the outcome of each API function taken as given.
NextCli ==
  \/ \E env \in Environments : main_loadConfig(env)
  \/ \E env \in Environments : streamCommand_loadConfig(env)
  \/ \E env \in Environments : testAuthentication_loadConfig(env)
  \/ \E p \in BOOLEAN : testAuthentication_Ends(p)
  \/ \E o \in {"ok", "failed", "skipped"} : main_Authenticate(o)
  \/ \E a \in BOOLEAN : start(a)
  \/ \E c \in Menus \cup {"exit"} : handleMainMenuChoice(c)
  \/ handleMenuBack
  \/ \E a \in ActionsOf(cli.menu) : handleMenuChoice(a)
  \/ \E res \in CallResults(cli.action), dl \in DownloadOutcomes : cliCallEnds(res, dl)
  \/ pressAnyKey
  \/ \E c \in {"refresh", "change-filter", "back"} : showSubscriptionListActions(c)
  \/ \E w \in BOOLEAN : offerNextOffsetOption(w)
  \/ handleInterrupt

NextStream ==
  \/ NextPolling
  \/ stop
  \/ stop_Empty

\* A stream whose token may be rejected and exchanged while it polls.
NextStreamAuth ==
  \/ NextStream
  \/ \E resp \in TokenResponses : GwReqFetchDone(resp)
  \/ GwResponse([status |-> 401, body |-> NoBody])
  \/ \E resp \in TokenResponses : GwRefreshDone(resp)
  \/ \E resp \in TokenResponses : GwRetryFetchDone(resp)

Next == NextAuth \/ NextGateway \/ NextStreamAuth \/ NextSubs \/ NextCli \/ NextCommand

Spec == Init /\ [][Next]_vars

\* The credential cache alone, called directly.
SpecAuth == Init /\ [][NextAuth]_vars

\* Gateway calls of the resource clients, one at a time.
SpecGateway == Init /\ [][NextGateway]_vars

\* The same with the tokens numbered in the order of issue.
SpecResend == Init /\ [][NextResend]_vars

\* One stream, its first seconds, with every callback invocation logged.
SpecStream == InitStream /\ [][NextStream]_vars

\* One stream that is not stopped, over more than one window of its budget.
SpecRate == InitRate /\ [][NextPolling]_vars

\* The interactive cli with a user who answers every prompt and ends every
\* stream, and an API that answers every call.
SpecCli == Init /\ [][NextCli]_vars /\ WF_vars(NextCli)

\* The stream command from its call of streamJournalEntries to its summary.
SpecCommand ==
  /\ InitCommand
  /\ [][NextCommand]_vars
  /\ WF_vars(CommandProgress)
  /\ WF_vars(streamCommand_Stop)

\* One stream that is never stopped, over more than one window of its
\* budget; its requests fail at will for that long and succeed from then on,
\* and the event loop keeps running.
SpecLive == InitRate /\ [][NextLive]_vars /\ WF_vars(LiveProgress)

\* The steps the event loop takes of itself when every request and download
\* ends within the second it began in: time passes in the sleeps of the loop.
HaltProgress ==
  \/ streamJournalEntries_Start
  \/ \E r \in {x \in JournalResponses(gw.caller, gw.arg) : x.status # 401} :
       GwResponse(r)
  \/ \E e \in BOOLEAN : getLatestJournalEntry_Api(e)
  \/ \E o \in DownloadOutcomes, e \in BOOLEAN : getLatestJournalEntry_Download(o, e)
  \/ \E thr \in Throws : getNextJournalEntry_Api(thr)
  \/ \E o \in DownloadOutcomes, thr \in Throws : getNextJournalEntry_Download(o, thr)
  \/ TimerFires
  \/ (streamPc \in {"poll_sleep", "rate_wait", "backoff"} /\ Elapse)
  \/ ElapseAfterStop

\* One stream whose stop function is invoked at any moment.
NextHalt ==
  \/ HaltProgress
  \/ Publish
  \/ stop

\* Over more than one window of the budget, the event loop running on.
SpecHalt == InitRate /\ [][NextHalt]_vars /\ WF_vars(HaltProgress)

\* A getAccessToken call of the program and the getAccessToken call of the
\* request interceptor, on the same AuthManager, in any interleaving of their
\* awaits.
NextOverlap ==
  \/ getAccessToken_Cached
  \/ getAccessToken_Fetch
  \/ \E resp \in TokenResponses : fetchAccessToken_Done(resp)
  \/ \E m \in Methods : UserCall(m)
  \/ UserReturn
  \/ \E resp \in TokenResponses : GwReqFetchDone(resp)
  \/ \E r \in {x \in PlainResponses : x.status # 401} : GwResponse(r)
  \/ Tick(1000)

SpecOverlap == Init /\ [][NextOverlap]_vars

\* One deletePortalSubscriptions call.
SpecSubs == InitStream /\ [][NextSubs]_vars

\* The same, started with a stale token, its requests counted over the 60 s
\* that follow the first of them.
SpecRolling == InitRolling /\ [][NextRolling]_vars

(***************************************************************************)
(* Properties                                                              *)
(***************************************************************************)
Sleeping == {"poll_sleep", "backoff"}

\* A step that starts a 'next' call.
StartsNext == streamPc # "next_api" /\ streamPc' = "next_api"

\* C1: a gateway call whose response is 401 performs exactly one forced
\* refresh and re-sends the request exactly once: no call sends more than 2
\* requests or performs more than 1 forced refresh.
C1_OneRefreshOneResend == gw.refreshes <= 1 /\ gw.sends <= 2

C3_FailureBacksOff ==
  (last.outcome = "error" /\ streamPc \in Sleeping)
    => (last.onError >= 1 /\ sleepMs = 4000)

\* C4: a 'next' call that returned an entry with a currentOffset other than
\* the held one led to exactly one onNewEntry call, the held offset is that
\* currentOffset, and a 'next' call in flight asks for the entry after the held
\* offset.
C4_NewEntryAdvances ==
  /\ (last.outcome = "entry" /\ last.offset # last.held)
       => (last.onEntry = 1 /\ lastOffset = last.offset)
  /\ streamPc = "next_api" => (gw.caller = "next" /\ gw.arg = lastOffset)

\* C4 witness: the offset advanced and the following request asks for the
\* entry after the new offset.
C4_Witness ==
  /\ last.outcome = "entry"
  /\ last.offset # last.held
  /\ streamPc = "next_api"
  /\ gw.pc = "sent"
  /\ gw.arg = last.offset

\* The run in which the latest entry was a and the 'next' calls ended 204,
\* 204, entry b, 204, with no callback throwing.
Scenario(a, b) ==
  <<<<"latest", a, FALSE>>, <<"204", NoOffset, FALSE>>, <<"204", NoOffset, FALSE>>,
    <<"entry", b, FALSE>>, <<"204", NoOffset, FALSE>>>>

\* C5: a 204 outcome of a 'next' call leaves the held offset as it was and
\* invokes neither onNewEntry nor onError; and after the responses 204, 204,
\* entry B, 204 from held offset A (callbacks returning normally) there has
\* been exactly one onNewEntry call, no onError call, and the held offset is B.
C5_NoContentChangesNothing ==
  /\ last.outcome = "204"
       => (last.onEntry = 0 /\ last.onError = 0 /\ lastOffset = last.held)
  /\ \A a, b \in Offsets :
       (a # b /\ log = Scenario(a, b))
         => (nEntry = 1 /\ nError = 0 /\ lastOffset = b)

\* C5 witness: the scenario has happened.
C5_Witness == log = Scenario(1, 2) /\ last.outcome = "204" /\ nEntry = 1

\* C6: while a stream polls, its held offset changes only in the step in which
\* a 'next' call has returned an entry (payload downloaded) with another
\* currentOffset, and it changes to that value; against a journal that answers
\* 'next' with the successor entry it only moves forward.
C6_OffsetOnlyAdvances ==
  [][(streamPc \in Polling /\ lastOffset' # lastOffset)
       => /\ streamPc = "next_dl"
          /\ pending.currentOffset # lastOffset
          /\ lastOffset' = pending.currentOffset
          /\ srv.mode = "journal" => lastOffset' > lastOffset
    ]_vars

\* C6 witness: the held offset has moved twice along the journal.
C6_Witness ==
  /\ srv.mode = "journal"
  /\ lastOffset = 3
  /\ last.outcome = "entry"
  /\ last.held = 2

\* C7: once the stop function has been invoked no 'next' call is started, and
\* invoking it emits one onStatusUpdate notification.
C7_NoRequestAfterStop ==
  /\ [][stopInvoked => ~StartsNext]_vars
  /\ [][(streamPc \in Polling /\ ~stopInvoked /\ stopInvoked')
          => (nStatus' = nStatus + 1 /\ ~isRunning')]_vars

\* C7 witness: stop was invoked while a request was in flight and the loop
\* has exited since.
C7_Witness ==
  /\ stopInvoked
  /\ streamPc = "exited"
  /\ last.outcome # "none"
  /\ nStatus = 3

\* C8: when the initial latest-entry fetch fails, onError has been invoked
\* exactly once, no 'next' call is ever started, and invoking the returned
\* stop function emits no onStatusUpdate and changes nothing of the stream.
C8_InitFailureNeverPolls ==
  /\ [](streamPc = "init_failed"
          => (nError = 1 /\ log = << >> /\ gw.pc = "idle"))
  /\ [][streamPc = "init_failed"
          => /\ streamPc' = "init_failed"
             /\ UNCHANGED <<isRunning, lastOffset, requestCount, lastMinuteTimestamp,
                            nStatus, nEntry, nError, log, gw>>
       ]_vars

\* C8 witness: the initial fetch failed and the empty stop function was called.
C8_Witness == streamPc = "init_failed" /\ stopInvoked /\ nError = 1 /\ nStatus = 1

\* C9: a getAccessToken call that finds a cached token that has not expired
\* returns its access_token without an exchange; of two successive
\* getAccessToken calls, the second finding the token not expired, both return
\* the same string and the second performs no exchange.
C9_CachedTokenReused ==
  /\ (Len(authLog) >= 1 /\ authLog[Len(authLog)].op = "get"
        /\ authLog[Len(authLog)].valid)
       => /\ authLog[Len(authLog)].ok
          /\ ~authLog[Len(authLog)].exchanged
          /\ authLog[Len(authLog)].tok = currentToken.access_token
  /\ (Len(authLog) = 2 /\ authLog[1].op = "get" /\ authLog[1].ok
        /\ authLog[2].op = "get" /\ authLog[2].valid)
       => (authLog[2].tok = authLog[1].tok /\ ~authLog[2].exchanged)

\* C9 witness: a getAccessToken that fetched, then one that found the token.
C9_Witness ==
  /\ Len(authLog) = 2
  /\ authLog[1].op = "get" /\ authLog[1].exchanged /\ authLog[1].ok
  /\ authLog[2].op = "get" /\ authLog[2].valid

\* C10: the expiry check on a cached token at time now is true exactly when
\* now >= obtained_at + expires_in * 1000 - 300000.
C10_ExpiryCheck ==
  lastInfo.hasToken
    => (lastInfo.isExpired
          <=> lastInfo.at >= lastInfo.token.obtained_at
                               + lastInfo.token.expires_in * 1000 - 300000)

\* C10 witness: a token with expires_in = 300 obtained 1 ms ago is expired.
C10_Witness ==
  /\ lastInfo.hasToken
  /\ lastInfo.token.expires_in = 300
  /\ lastInfo.at = lastInfo.token.obtained_at + 1
  /\ lastInfo.isExpired

\* The last completed direct AuthManager call.
LastAuth == authLog[Len(authLog)]

\* A step in which the exchange awaited by getAccessToken / refreshToken is
\* answered.
ExchangeAnswered == userPc.pc \in {"get_fetch", "refresh_fetch"} /\ userPc' # userPc

\* C11: a completed refreshToken call has performed an exchange, whether it
\* found no token, a valid one or an expired one; after a successful one the
\* cached token is the one just issued (obtained now, with the access_token the
\* call returned), so the returned string differs from the one cached before
\* exactly when the remote issued another string.
C11_RefreshAlwaysExchanges ==
  /\ []((Len(authLog) >= 1 /\ LastAuth.op = "refresh")
          => /\ LastAuth.exchanged
             /\ LastAuth.ok => (currentToken # NoToken
                                 /\ currentToken.access_token = LastAuth.tok))
  /\ [][(userPc.pc = "refresh_fetch" /\ userPc'.pc = "idle"
           /\ authLog'[Len(authLog')].ok)
          => /\ currentToken'.obtained_at = now
             /\ authLog'[Len(authLog')].tok = currentToken'.access_token
       ]_vars

\* C11 witness: a refreshToken that found a valid token returned another
\* access_token than the getAccessToken before it.
C11_Witness ==
  /\ Len(authLog) = 2
  /\ authLog[1].op = "get" /\ authLog[1].ok
  /\ authLog[2].op = "refresh" /\ authLog[2].ok /\ authLog[2].valid
  /\ authLog[2].tok # authLog[1].tok

\* C12: after clearToken the cache holds no token, a getTokenInfo that follows
\* it reports hasToken = false and isExpired = true, and a getAccessToken that
\* follows it performs an exchange and finds no cached token.
C12_ClearDiscards ==
  /\ (Len(authLog) >= 1 /\ LastAuth.op = "clear")
       => /\ currentToken = NoToken
          /\ lastInfo.at # 0 => (~lastInfo.hasToken /\ lastInfo.isExpired)
  /\ (Len(authLog) = 2 /\ authLog[1].op = "clear" /\ authLog[2].op = "get")
       => (authLog[2].exchanged /\ ~authLog[2].valid)

\* C12 witness: getTokenInfo was called after a clearToken that followed a
\* successful getAccessToken.
C12_Witness ==
  /\ Len(authLog) = 2
  /\ authLog[1].op = "get" /\ authLog[1].ok
  /\ authLog[2].op = "clear"
  /\ lastInfo.at # 0
  /\ ~lastInfo.hasToken

\* C13: when the exchange awaited by getAccessToken / refreshToken fails, the
\* call ends in that step with an AuthError (category of the response body, or
\* HTTP_ERROR without one), the cached token is left as it was, and no second
\* exchange is awaited.
C13_FailedExchangeNoRetry ==
  /\ [][ExchangeAnswered
          => /\ userPc'.pc = "idle"
             /\ Len(authLog') >= 1
             /\ authLog'[Len(authLog')].exchanged
             /\ ~authLog'[Len(authLog')].ok
                  => /\ authLog'[Len(authLog')].err.name = "AuthError"
                     /\ authLog'[Len(authLog')].err.category
                          \in {"FROM_BODY", "HTTP_ERROR"}
                     /\ currentToken' = currentToken
       ]_vars
  /\ [](Len(authLog) >= 1
          => (LastAuth.err.name = "AuthError"
                <=> (~LastAuth.ok /\ LastAuth.op \in {"get", "refresh"})))

\* C13 witness: a getAccessToken ended with an AuthError built from the error
\* response body.
C13_Witness ==
  /\ Len(authLog) >= 1
  /\ LastAuth.op = "get"
  /\ ~LastAuth.ok
  /\ LastAuth.err = [name |-> "AuthError", category |-> "FROM_BODY"]
  /\ userPc.pc = "idle"

\* C14: a gateway call (get, post, put or delete) whose request was answered
\* with 204 has ended as an error with statusCode 204, never as a success.
C14_NoContentIsError ==
  (lastCall.method \in Methods /\ lastCall.result.status = 204)
    => ~lastCall.result.ok

\* C15: of the journal requests of a stream (the latest-entry fetch and the
\* 'next' calls), at most 30 are dispatched in the 60 s that begin with the
\* first of them.
C15_RollingBudget == watch.n <= MAX_REQUESTS_PER_MINUTE

C17_FallbackOnAny5xx ==
  subs.bulk \in 500..599 => subs.fellBack

\* The ids of the listed subscriptions of the portal asked for, in list order.
PortalSubscriptionIds ==
  [i \in 1..Len(FilterPortal(subs.listed, subs.portalId)) |->
     FilterPortal(subs.listed, subs.portalId)[i].id]

\* C18: in the fallback a DELETE is issued only for listed subscriptions of the
\* portal asked for and for none of them twice; every DELETE that has returned
\* or thrown has its own report, success or failure; and the fallback ends
\* normally having issued exactly one DELETE for each subscription of the
\* portal, whichever of them failed: it throws only when the list itself could
\* not be obtained.
C18_OneDeletePerPortalSubscription ==
  /\ \A i \in 1..Len(subs.deletes) : subs.deletes[i] = PortalSubscriptionIds[i]
  /\ Len(subs.deletes) <= Len(PortalSubscriptionIds)
  /\ \A i \in 1..Len(subs.reports) : subs.reports[i][1] = subs.deletes[i]
  /\ Len(subs.reports) = Len(subs.deletes) - (IF subs.pc = "item" THEN 1 ELSE 0)
  /\ (subs.pc = "returned" /\ subs.fellBack)
       => /\ subs.result = "ok" => subs.deletes = PortalSubscriptionIds
          /\ subs.result = "threw" => (subs.listed = << >> /\ subs.deletes = << >>)

\* C18 witness: of three listed subscriptions two are of the portal; the
\* DELETE of the first failed, the DELETE of the second followed and succeeded.
C18_Witness ==
  /\ subs.pc = "returned"
  /\ subs.portalId = 1
  /\ Len(subs.listed) = 3
  /\ subs.listed[2].portalId = 2
  /\ subs.reports = <<<<1, FALSE>>, <<3, TRUE>>>>

\* A menu action's API call failed and its error is on the screen.
FailureShown == cli.failed /\ cli.pc \in {"press_key", "streaming"}

AtCallingMenu == cli.pc = "menu"

\* C19: for every menu action that calls the API, when the call fails the
\* error is displayed, the process does not exit, and control eventually
\* returns to the menu the action was chosen from.
C19_FailureReturnsToMenu ==
  /\ [](FailureShown => cli.shown \in {"displayApiError", "Stream error",
                                       "info: You are already on the latest offset."})
  /\ FailureShown ~> AtCallingMenu

\* The same for every action but the subscription list and the stream.
FailureReturnsToMenu_Others ==
  (FailureShown /\ cli.action \notin {"list", "stream"}) ~> AtCallingMenu

\* The API answered 'get next' with 204, or successfully without a url.
AnsweredNoContent ==
  /\ cli.action \in {"next", "nextFrom"}
  /\ cli.pc = "press_key"
  /\ cli.reply.status = 204 \/ (cli.reply.status = 200 /\ ~cli.reply.hasUrl)

\* C20: getNextJournalEntry ends with the no-content error (204, 'You are
\* already on the latest offset') both on a 204 answer and on a successful
\* answer without url, with no download attempted, and the 'get next'
\* actions render it as the one info line, not the generic error display.
C20_NoContentOnMissingUrl ==
  /\ \A res \in JournalGetResults, dl \in DownloadOutcomes :
        (res.status = 204 \/ (res.ok /\ ~res.body.hasUrl)) =>
          getNextJournalEntry(res, dl) =
            [ok |-> FALSE, downloaded |-> FALSE, status |-> 204,
             message |-> NoContentMessage, offset |-> NoOffset]
  /\ AnsweredNoContent =>
        /\ cli.outcome = NoContentMessage
        /\ ~cli.downloads
        /\ cli.shown = "info: You are already on the latest offset."
  /\ cli.shown = "info: You are already on the latest offset." =>
        cli.outcome = NoContentMessage

C20_Witness ==
  /\ AnsweredNoContent
  /\ cli.reply.status = 200
  /\ cli.action = "nextFrom"

LinkExpiredErrors ==
  {"Journal data file not found - the URL may have expired",
   "Access denied to journal data file - the URL may have expired"}

\* C21: a payload download answered 403 or 404 raises a link-expired error
\* (its message says the URL may have expired), every other download failure
\* another error; in the stream the link-expired error reaches onError and the
\* held offset stays as it was.
C21_LinkExpiredIsDistinct ==
  /\ \A o \in DownloadOutcomes \ {"ok"} :
        DownloadError(o) \in LinkExpiredErrors <=> o \in {"403", "404"}
  /\ (last.outcome = "error" /\ last.error \in LinkExpiredErrors)
        => (last.onError >= 1 /\ lastOffset = last.held)

C21_Witness ==
  /\ last.outcome = "error"
  /\ last.error = DownloadError("403")
  /\ last.onError = 1
  /\ lastOffset = 2
  /\ streamPc = "next_api"

\* The requests of the stream that are outstanding: the journal API call
\* (its token exchanges included) and the payload download.
Outstanding ==
  (IF gw.pc \in {"req_fetch", "sent", "refresh", "retry_fetch"} THEN 1 ELSE 0)
  + (IF streamPc \in {"init_dl", "next_dl"} THEN 1 ELSE 0)

\* C22: within one stream at most one request (journal API call or payload
\* download) is outstanding at any time: none while the loop sleeps, and the
\* loop starts a request only when the previous one has completed or failed
\* and the sleep that followed it has ended.
C22_OneOutstandingRequest ==
  /\ [](Outstanding <= 1)
  /\ [](streamPc \in {"poll_sleep", "rate_wait", "backoff"} => Outstanding = 0)
  /\ [][StartsNext
         => /\ Outstanding <= 1
            /\ gw.pc = "idle"
            /\ \/ streamPc = "init_dl"
               \/ streamPc \in {"poll_sleep", "rate_wait", "backoff"} /\ now >= wakeAt
       ]_vars

\* C22 witness: a 'next' call is outstanding that was started after a failed
\* download and the sleep that followed it.
C22_Witness ==
  /\ streamPc = "next_api"
  /\ gw.pc = "sent"
  /\ last.outcome = "error"
  /\ last.error = DownloadError("failed")
  /\ now >= wakeAt
  /\ sleepMs = POLL_INTERVAL_MS

\* A step in which the gateway dispatches a request.
Dispatches == gw'.sends = gw.sends + 1

\* C23: every request the gateway sends, a request re-sent after a 401
\* included, carries as bearer the access token the credential cache returns
\* at send time; after a forced refresh the re-sent request carries the
\* refreshed token and not the token that was rejected.
C23_BearerIsCachedToken ==
  [][Dispatches
       => /\ gw'.bearer = currentToken'.access_token
          /\ gw'.bearer # 0
          /\ gw'.refreshes >= 1 => gw'.bearer # gw'.rejected
    ]_vars

\* C23 witness: the request was rejected with token 1 and is out again with the
\* token of the forced refresh.
C23_Witness ==
  /\ gw.pc = "sent"
  /\ gw.sends = 2
  /\ gw.refreshes = 1
  /\ gw.rejected = 1
  /\ gw.bearer = 2
  /\ currentToken.access_token = 2

\* An interrupt is received while the cli shows a stream.
Interrupted == cli.pc = "streaming" /\ cli'.pc # "streaming"

\* C24: in interactive mode an interrupt received while a stream is running
\* stops the stream and not the process: the stop function is invoked, the
\* 'Stream completed' total is shown, and control returns to the journal menu.
C24_InterruptStopsStreamOnly ==
  /\ [][Interrupted
         => /\ cli'.exit = "none"
            /\ cli'.stopped
            /\ cli'.shown = "Stream completed"
       ]_vars
  /\ (cli.pc = "streaming") ~> (cli.pc = "menu" /\ cli.menu = "journal")

\* C26: loadConfig ends with a ConfigError that names every missing variable
\* when any of the four required variables is absent or empty, and with a
\* ConfigError when either URL is malformed; at startup that error ends the
\* process with exit status 1 before any token exchange or API request.
C26_ConfigErrorIsFatal ==
  /\ \A env \in Environments :
        LET absent == {v \in RequiredEnvVars : env[v] \in {"absent", "empty"}}
            e == loadConfig(env) IN
        /\ absent # {} => (e.name = "ConfigError" /\ e.missing = absent)
        /\ (env["HUBSPOT_API_BASE_URL"] = "text" \/ env["HUBSPOT_OAUTH_TOKEN_URL"] = "text")
             => e.name = "ConfigError"
  /\ cli.config.name = "ConfigError"
        => /\ cli.pc = "exited"
           /\ cli.exit = "1"
           /\ cli.authTest = "none"
           /\ cli.action = "none"
  /\ cli.pc \notin {"boot", "exited"} => cli.config = NoConfigError

\* The same for the two commands, index and stream.
ConfigErrorIsFatal_Commands ==
  (cli.config.name = "ConfigError" /\ cli.program # "test-auth")
    => (cli.pc = "exited" /\ cli.exit = "1" /\ cli.authTest = "none")


\* C25: in direct command mode, after SIGINT or SIGTERM the command eventually
\* invokes the stop function of the stream and prints the summary, and the
\* entry and event counts of the summary are the numbers delivered before the
\* signal: an entry that arrives after the signal is neither counted nor
\* displayed.
C25_SummaryCountsBeforeSignal ==
  /\ [](cmd.signalled
          => /\ ~cmd.isRunning
             /\ <<cmd.entryCount, cmd.eventCount>> = cmd.atSignal)
  /\ [](cmd.pc = "done"
          => /\ cmd.signalled
             /\ stopInvoked
             /\ cmd.summary = cmd.atSignal)
  /\ (cmd.pc = "streaming" /\ cmd.signalled) ~> (cmd.pc = "done")

\* C25 witness: one entry was delivered before the signal, one arrived after
\* it, and the summary counts one entry.
C25_Witness ==
  /\ cmd.pc = "done"
  /\ cmd.late = 1
  /\ cmd.summary = <<1, 2>>
  /\ lastOffset = 3

\* The 'next' calls that returned an entry, oldest first.
Delivered == SelectSeq(log, LAMBDA e : e[1] = "entry")

\* C27: against an append-only journal whose 'next' call returns the successor
\* of the given offset, the entries passed to onNewEntry are the journal
\* entries after the initially fetched latest one, in journal order, each once,
\* none skipped or repeated, also when 'next' calls or downloads fail in
\* between; the latest entry itself is not passed to onNewEntry.
C27_DeliversJournalInOrder ==
  (srv.mode = "journal" /\ log # << >>)
    => LET latest == log[1][2] IN
       /\ log[1][1] = "latest"
       /\ \A i \in 1..Len(Delivered) : Delivered[i][2] = latest + i
       /\ nEntry = Len(Delivered)
       /\ lastOffset = latest + nEntry
       /\ lastOffset <= srv.len

\* C27 witness: after the latest entry 1, a failed download, then entries 2 and
\* 3 were delivered.
C27_Witness ==
  /\ srv.mode = "journal"
  /\ log = <<<<"latest", 1, FALSE>>, <<"error", NoOffset, FALSE>>,
             <<"entry", 2, FALSE>>, <<"entry", 3, FALSE>>>>
  /\ nEntry = 2
  /\ nError = 1

\* C28: if a stream has passed its initial fetch and is never stopped, and the
\* journal holds an entry after the held offset, then, provided 'next' calls
\* and downloads eventually succeed and timers fire, onNewEntry is eventually
\* invoked for that entry (the held offset reaches it): a rate-limit wait or
\* an error only delays it.
C28_WaitingEntryIsDelivered ==
  \A k \in Offsets :
    (EntryWaiting /\ lastOffset < k /\ k <= srv.len) ~> (lastOffset >= k)

\* The same for a stream whose loop has not ended on a raising onError.
WaitingEntryIsDelivered_UnlessCrashed ==
  \A k \in Offsets :
    (EntryWaiting /\ lastOffset < k /\ k <= srv.len)
      ~> (lastOffset >= k \/ streamPc = "crashed")

\* The loop has left its while statement, or has ended on a raising onError.
LoopEnded == streamPc \in {"exited", "crashed"}

\* C29: after the stop function has been invoked the polling loop eventually
\* exits, once the request in flight and the current sleep or rate-limit wait
\* have ended, in whatever state of the loop stop was invoked.
C29_LoopExitsAfterStop == stopInvoked ~> LoopEnded

\* stop was invoked inside a rate-limit wait, whose timer is now due: the
\* while statement precedes the budget check, so that no rate-limit wait
\* begins once the flag is cleared.
C29_Witness ==
  /\ stopInvoked
  /\ streamPc = "rate_wait"
  /\ now >= wakeAt

\* The step that ends a 'next' call: the loop leaves the call for its sleep,
\* or ends.
NextCallEnds ==
  /\ streamPc \in {"next_api", "next_dl"}
  /\ streamPc' \notin {"next_api", "next_dl"}

\* The step that ends a successful initial fetch and enters the loop.
InitialFetchEnds ==
  /\ streamPc \in {"init_api", "init_dl"}
  /\ streamPc' \in Polling

\* The window of the budget is over: resetRateLimit sets the counter to 0.
WindowOver == now - lastMinuteTimestamp >= WindowMs

\* C30: the budget counter goes up by exactly one for the successful initial
\* fetch and for each 'next' call, whether the call succeeds, returns 204 or
\* fails, also when the onNewEntry callback raises; it is reset to 0 only
\* when at least 60 s have passed since the window start; and it is between 0
\* and 30 in every reachable state.
C30_BudgetCounter ==
  /\ [](requestCount \in 0..MAX_REQUESTS_PER_MINUTE)
  /\ [][/\ NextCallEnds => requestCount' = requestCount + 1
        /\ InitialFetchEnds =>
             \/ requestCount' = requestCount + 1
             \/ requestCount' = 0 /\ WindowOver
        /\ requestCount' < requestCount => requestCount' = 0 /\ WindowOver]_vars

\* The same steps, the call that ends with a raising onNewEntry counted twice
\* (the loop records one onNewEntry and one onError call for an entry).
BudgetCounter_RaisingCountsTwice ==
  [][/\ NextCallEnds =>
          requestCount' = requestCount + 1
            + (IF last'.outcome = "entry" /\ last'.onEntry = 1 /\ last'.onError >= 1
                 THEN 1 ELSE 0)
     /\ InitialFetchEnds =>
          \/ requestCount' = requestCount + 1
          \/ requestCount' = 0 /\ WindowOver
     /\ requestCount' < requestCount => requestCount' = 0 /\ WindowOver]_vars

\* The counter has passed the budget.
BudgetCounter_Above == requestCount > MAX_REQUESTS_PER_MINUTE

\* The step on which the forced refresh of a 401 ends the call: the exchange
\* of refreshToken failed.
RefreshFails == gw.pc = "refresh" /\ gw'.pc = "done"

\* C31: when a gateway call gets 401 and the forced token refresh itself
\* fails, the request is not sent again and the caller receives the typed API
\* error of the 401 response (statusCode 401), not the authentication error
\* of the failed refresh (which carries no status).
C31_FailedRefreshGivesOriginal401 ==
  [][/\ RefreshFails =>
          /\ gw'.sends = gw.sends
          /\ ~gw'.result.ok
          /\ gw'.result.status = 401
          /\ currentToken' = currentToken
     /\ (gw.pc = "done" /\ gw.caller = "user" /\ gw'.pc = "idle") =>
          /\ lastCall'.result.ok = gw.result.ok
          /\ lastCall'.result.status = gw.result.status
          /\ lastCall'.sends = gw.sends]_vars

\* A call has returned to its caller after one request, answered 401, and one
\* forced refresh, which failed.
C31_Witness ==
  /\ lastCall.method # "none"
  /\ lastCall.sends = 1
  /\ lastCall.refreshes = 1
  /\ lastCall.result.status = 401

\* A getAccessToken or refreshToken call is at its await of the exchange.
Exchanging == userPc.pc \in {"get_fetch", "refresh_fetch"}

\* C32: a failed token exchange leaves the credential cache unchanged: from
\* the start of a getAccessToken or refreshToken call to its failed end the
\* cached token stays what it was (absent, or the previous token, expired or
\* not); a failed refreshToken does not discard a cached token.
C32_FailedExchangeKeepsCache ==
  [][/\ (~Exchanging /\ Exchanging') => currentToken' = currentToken
     /\ (Exchanging /\ Exchanging') => currentToken' = currentToken
     /\ (Exchanging /\ ~Exchanging' /\ ~authLog'[Len(authLog')].ok)
          => currentToken' = currentToken]_vars

\* A refreshToken that found a valid token has failed, and the token is
\* still cached and valid.
C32_Witness ==
  /\ authLog # <<>>
  /\ authLog[Len(authLog)].op = "refresh"
  /\ ~authLog[Len(authLog)].ok
  /\ authLog[Len(authLog)].valid
  /\ HasValidToken

\* Two getAccessToken calls await an exchange at once: the call of the request
\* interceptor and a call of the program.
TwoExchanges == gw.pc = "req_fetch" /\ userPc.pc = "get_fetch"

\* C33: when two getAccessToken calls overlap and no valid token is cached,
\* only one token exchange is performed, both callers receive the same
\* access_token, and the cache ends holding that token: no two exchanges are
\* awaited at once, and a call that finds, when its await ends, a valid token
\* which the other call has cached meanwhile returns that token and leaves it
\* in the cache.
C33_OverlappingCallsShareExchange ==
  /\ [](~TwoExchanges)
  /\ [][/\ (gw.pc = "req_fetch" /\ gw'.pc = "sent" /\ HasValidToken) =>
            /\ gw'.bearer = currentToken.access_token
            /\ currentToken' = currentToken
        /\ (userPc.pc = "get_fetch" /\ userPc'.pc = "idle" /\ HasValidToken
              /\ authLog'[Len(authLog')].ok) =>
            /\ authLog'[Len(authLog')].tok = currentToken.access_token
            /\ currentToken' = currentToken]_vars

\* The two calls have ended with different tokens: the request went out with
\* one, the program was given the other.
OverlapGaveTwoTokens ==
  /\ gw.pc = "sent"
  /\ authLog # <<>>
  /\ authLog[Len(authLog)].op = "get"
  /\ authLog[Len(authLog)].ok
  /\ authLog[Len(authLog)].exchanged
  /\ ~authLog[Len(authLog)].valid
  /\ authLog[Len(authLog)].tok # gw.bearer
  /\ currentToken.obtained_at = Epoch

\* The interactive session is past start() and its token fetch had failed.
Unauthenticated ==
  /\ cli.program = "index"
  /\ cli.pc \in {"main", "menu", "call", "press_key", "list_actions", "offer_next",
                 "streaming"}
  /\ ~cli.auth

\* C34: if the token fetch in InteractiveCLI.start fails, the session stays
\* unauthenticated for its whole life and no menu action issues a resource
\* API request (subscriptions, snapshots, journal, stream): each action only
\* shows the 'Authentication required' warning and returns to its menu.
C34_UnauthenticatedIssuesNoRequest ==
  /\ [](Unauthenticated =>
          /\ cli.pc \in {"main", "menu", "press_key"}
          /\ cli.reply = NoReply
          /\ ~cli.downloads
          /\ cli.pc = "press_key" => cli.shown = "warning")
  /\ [][Unauthenticated =>
          /\ ~cli'.auth
          /\ cli.pc = "press_key" => (cli'.pc = "menu" /\ cli'.menu = cli.menu)]_vars

\* An unauthenticated session is back in the journal menu after the stream
\* action showed its warning.
C34_Witness ==
  /\ Unauthenticated
  /\ cli.pc = "menu"
  /\ cli.menu = "journal"
  /\ cli.action = "stream"
  /\ cli.shown = "warning"

====
